---- MODULE Spec2Model ----
(***************************************************************************)
(* MicroSearch: the x402-gated GET /api/search endpoint.                   *)
(*                                                                         *)
(* The model follows one request through pages/api/search.ts (handler),    *)
(* lib/x402.ts (challenge, extraction, verify, settle, receipt encoding)   *)
(* and lib/search.ts (executeSearch).  The facilitator and DuckDuckGo are  *)
(* the environment: every reply they can give is chosen with \E when the   *)
(* awaited fetch resolves.                                                 *)
(*                                                                         *)
(* The AgentIdentityRegistry contract the service's identity points to is  *)
(* modelled beside it (SpecChain): its storage, and one action for each    *)
(* of its state-changing functions.                                        *)
(*                                                                         *)
(* JavaScript values are written as strings ("true", "false", "undefined") *)
(* so that values of different JavaScript types stay comparable.           *)
(* A query string is a sequence of one-character strings.                  *)
(***************************************************************************)
EXTENDS Integers, Sequences, FiniteSets, TLC

\* ------------------------------------------------------------------ bounds
\* Longest raw value of the q parameter that is enumerated.
MaxQLen == 2
\* Most result blocks in a DuckDuckGo page (above the cap of 5 results).
MaxBlocks == 6
\* Handler slots (requests the server can hold at once).
MaxSlots == 2
\* Most earlier unpaid requests that are counted.
MaxHistory == 2

\* How many agents are registered at most.
MaxAgents == 2

Slots == 1 .. MaxSlots

\* ------------------------------------------------------- JavaScript values
Undef == "undefined"

\* JavaScript truthiness of a value written as a string.
Truthy(v) == v \notin {"undefined", "null", "false", "", "0"}

\* An error detail: a fixed message, or a message built from a status and
\* a text.
Err(code, status, text) == [code |-> code, status |-> status, text |-> text]
NoErr == Err(Undef, 0, "")

\* ------------------------------------------------------------ JSON values
\* The result of JSON.parse on the texts the environment can send.
\*   ok  : whether JSON.parse returns (FALSE: it throws SyntaxError)
\*   t   : "null", "scalar" or "object"
\*   src : the text of the value without insignificant white space
\*   keys: the member names of an object, in the order of the text
\* and the members the code reads, "undefined" when the value has none.
JV(ok, t, src, keys, isValid, payer, invalidReason, success, transaction, errorReason) ==
    [ok |-> ok, t |-> t, src |-> src, keys |-> keys, isValid |-> isValid,
     payer |-> payer, invalidReason |-> invalidReason, success |-> success,
     transaction |-> transaction, errorReason |-> errorReason]

JObj(src, keys, isValid, payer, invalidReason, success, transaction, errorReason) ==
    JV(TRUE, "object", src, keys, isValid, payer, invalidReason, success, transaction,
       errorReason)

JBad == JV(FALSE, "none", "", <<>>, Undef, Undef, Undef, Undef, Undef, Undef)
JNull == JV(TRUE, "null", "null", <<>>, Undef, Undef, Undef, Undef, Undef, Undef)
JScalar(src) == JV(TRUE, "scalar", src, <<>>, Undef, Undef, Undef, Undef, Undef, Undef)

\* Token payloads.
TxtEmptyObj == "{}"
TxtPayload == "{\"v\":1}"
TxtNotJson == "not json"
\* Facilitator bodies.
TxtNull == "null"
TxtFive == "5"
TxtHtml == "<html>Bad Gateway</html>"
TxtValid == "{\"isValid\":true,\"payer\":\"0xABC\"}"
TxtValidNoPayer == "{\"isValid\":true}"
TxtExpired == "{\"isValid\":false,\"invalidReason\":\"expired\"}"
TxtInvalidNoReason == "{\"isValid\":false}"
\* A validity flag that is not a boolean.
TxtValidOne == "{\"isValid\":1,\"payer\":\"0xABC\"}"
TxtSettled == "{\"success\":true,\"transaction\":\"0xT1\",\"payer\":\"0xABC\"}"
TxtSettledSpaced ==
    "{ \"success\": true, \"transaction\": \"0xT1\", \"payer\": \"0xABC\" }"
TxtSettledNoTx == "{\"success\":true}"
\* A success flag that is not a boolean.
TxtSettledOne == "{\"success\":1,\"transaction\":\"0xT1\",\"payer\":\"0xABC\"}"
TxtInsufficient == "{\"success\":false,\"errorReason\":\"insufficient funds\"}"
TxtFailedEmptyTx == "{\"success\":false,\"errorReason\":\"expired\",\"transaction\":\"\"}"
TxtReverted == "{\"success\":false,\"errorReason\":\"reverted\",\"transaction\":\"0xT2\",\"payer\":\"0xABC\"}"

JsonParse(text) ==
    CASE text = TxtEmptyObj ->
            JObj(text, <<>>, Undef, Undef, Undef, Undef, Undef, Undef)
      [] text = TxtPayload ->
            JObj(text, <<"v">>, Undef, Undef, Undef, Undef, Undef, Undef)
      [] text = TxtNull -> JNull
      [] text = TxtFive -> JScalar(text)
      [] text = TxtValid ->
            JObj(text, <<"isValid", "payer">>, "true", "0xABC", Undef, Undef, Undef, Undef)
      [] text = TxtValidNoPayer ->
            JObj(text, <<"isValid">>, "true", Undef, Undef, Undef, Undef, Undef)
      [] text = TxtExpired ->
            JObj(text, <<"isValid", "invalidReason">>, "false", Undef, "expired", Undef,
                 Undef, Undef)
      [] text = TxtInvalidNoReason ->
            JObj(text, <<"isValid">>, "false", Undef, Undef, Undef, Undef, Undef)
      [] text \in {TxtSettled, TxtSettledSpaced} ->
            JObj(TxtSettled, <<"success", "transaction", "payer">>, Undef, "0xABC", Undef,
                 "true", "0xT1", Undef)
      [] text = TxtSettledNoTx ->
            JObj(text, <<"success">>, Undef, Undef, Undef, "true", Undef, Undef)
      [] text = TxtSettledOne ->
            JObj(text, <<"success", "transaction", "payer">>, Undef, "0xABC", Undef,
                 "1", "0xT1", Undef)
      [] text = TxtValidOne ->
            JObj(text, <<"isValid", "payer">>, "1", "0xABC", Undef, Undef, Undef, Undef)
      [] text = TxtInsufficient ->
            JObj(text, <<"success", "errorReason">>, Undef, Undef, Undef, "false", Undef,
                 "insufficient funds")
      [] text = TxtFailedEmptyTx ->
            JObj(text, <<"success", "errorReason", "transaction">>, Undef, Undef, Undef,
                 "false", "", "expired")
      [] text = TxtReverted ->
            JObj(text, <<"success", "errorReason", "transaction", "payer">>, Undef, "0xABC",
                 Undef, "false", "0xT2", "reverted")
      [] OTHER -> JBad

\* ----------------------------------------------------------------- tokens
TokEmptyObj == "e30="
TokPayload == "eyJ2IjoxfQ=="
TokNotJson == "bm90IGpzb24="
TokNotBase64 == "!!"

\* Buffer.from(token, "base64").toString("utf-8"): never throws; characters
\* outside the base64 alphabet are skipped.
Base64Decode(tok) ==
    CASE tok = TokEmptyObj -> TxtEmptyObj
      [] tok = TokPayload -> TxtPayload
      [] tok = TokNotJson -> TxtNotJson
      [] OTHER -> ""

\* JSON.parse(Buffer.from(paymentSignature, "base64").toString("utf-8"))
DecodeToken(tok) == JsonParse(Base64Decode(tok))

\* -------------------------------------------------------------- encodings
\* Buffer.from(text): the UTF-8 bytes of the texts that get serialised.  The
\* em dash of the resource description is written \u2014 in the text and is
\* the bytes 226, 128, 148.
Utf8(text) ==
    CASE text = "" ->
            <<>>
      [] text = "true" ->
            <<116, 114, 117, 101>>
      [] text = "false" ->
            <<102, 97, 108, 115, 101>>
      [] text = "null" ->
            <<110, 117, 108, 108>>
      [] text = "5" ->
            <<53>>
      [] text = "success" ->
            <<115, 117, 99, 99, 101, 115, 115>>
      [] text = "transaction" ->
            <<116, 114, 97, 110, 115, 97, 99, 116, 105, 111, 110>>
      [] text = "payer" ->
            <<112, 97, 121, 101, 114>>
      [] text = "errorReason" ->
            <<101, 114, 114, 111, 114, 82, 101, 97, 115, 111, 110>>
      [] text = "isValid" ->
            <<105, 115, 86, 97, 108, 105, 100>>
      [] text = "invalidReason" ->
            <<105, 110, 118, 97, 108, 105, 100, 82, 101, 97, 115, 111, 110>>
      [] text = "v" ->
            <<118>>
      [] text = "0xT1" ->
            <<48, 120, 84, 49>>
      [] text = "0xT2" ->
            <<48, 120, 84, 50>>
      [] text = "0xABC" ->
            <<48, 120, 65, 66, 67>>
      [] text = "insufficient funds" ->
            <<105, 110, 115, 117, 102, 102, 105, 99, 105, 101, 110, 116, 32, 102, 117, 110, 100,
            115>>
      [] text = "expired" ->
            <<101, 120, 112, 105, 114, 101, 100>>
      [] text = "reverted" ->
            <<114, 101, 118, 101, 114, 116, 101, 100>>
      [] text = "x402Version" ->
            <<120, 52, 48, 50, 86, 101, 114, 115, 105, 111, 110>>
      [] text = "resource" ->
            <<114, 101, 115, 111, 117, 114, 99, 101>>
      [] text = "url" ->
            <<117, 114, 108>>
      [] text = "description" ->
            <<100, 101, 115, 99, 114, 105, 112, 116, 105, 111, 110>>
      [] text = "mimeType" ->
            <<109, 105, 109, 101, 84, 121, 112, 101>>
      [] text = "accepts" ->
            <<97, 99, 99, 101, 112, 116, 115>>
      [] text = "scheme" ->
            <<115, 99, 104, 101, 109, 101>>
      [] text = "network" ->
            <<110, 101, 116, 119, 111, 114, 107>>
      [] text = "amount" ->
            <<97, 109, 111, 117, 110, 116>>
      [] text = "asset" ->
            <<97, 115, 115, 101, 116>>
      [] text = "payTo" ->
            <<112, 97, 121, 84, 111>>
      [] text = "maxTimeoutSeconds" ->
            <<109, 97, 120, 84, 105, 109, 101, 111, 117, 116, 83, 101, 99, 111, 110, 100, 115>>
      [] text = "extra" ->
            <<101, 120, 116, 114, 97>>
      [] text = "name" ->
            <<110, 97, 109, 101>>
      [] text = "version" ->
            <<118, 101, 114, 115, 105, 111, 110>>
      [] text = "error" ->
            <<101, 114, 114, 111, 114>>
      [] text = "/api/search" ->
            <<47, 97, 112, 105, 47, 115, 101, 97, 114, 99, 104>>
      [] text = "application/json" ->
            <<97, 112, 112, 108, 105, 99, 97, 116, 105, 111, 110, 47, 106, 115, 111, 110>>
      [] text = "exact" ->
            <<101, 120, 97, 99, 116>>
      [] text = "eip155:84532" ->
            <<101, 105, 112, 49, 53, 53, 58, 56, 52, 53, 51, 50>>
      [] text = "2000" ->
            <<50, 48, 48, 48>>
      [] text = "0x036CbD53842c5426634e7929541eC2318f3dCF7e" ->
            <<48, 120, 48, 51, 54, 67, 98, 68, 53, 51, 56, 52, 50, 99, 53, 52, 50, 54, 54, 51,
            52, 101, 55, 57, 50, 57, 53, 52, 49, 101, 67, 50, 51, 49, 56, 102, 51, 100, 67, 70,
            55, 101>>
      [] text = "USD Coin" ->
            <<85, 83, 68, 32, 67, 111, 105, 110>>
      [] text = "2" ->
            <<50>>
      [] text = "Payment required. Include PAYMENT-SIGNATURE header with a valid x402 payment." ->
            <<80, 97, 121, 109, 101, 110, 116, 32, 114, 101, 113, 117, 105, 114, 101, 100, 46,
            32, 73, 110, 99, 108, 117, 100, 101, 32, 80, 65, 89, 77, 69, 78, 84, 45, 83, 73, 71,
            78, 65, 84, 85, 82, 69, 32, 104, 101, 97, 100, 101, 114, 32, 119, 105, 116, 104, 32,
            97, 32, 118, 97, 108, 105, 100, 32, 120, 52, 48, 50, 32, 112, 97, 121, 109, 101,
            110, 116, 46>>
      [] text = "Invalid payment signature encoding" ->
            <<73, 110, 118, 97, 108, 105, 100, 32, 112, 97, 121, 109, 101, 110, 116, 32, 115,
            105, 103, 110, 97, 116, 117, 114, 101, 32, 101, 110, 99, 111, 100, 105, 110, 103>>
      [] text = "Facilitator unreachable" ->
            <<70, 97, 99, 105, 108, 105, 116, 97, 116, 111, 114, 32, 117, 110, 114, 101, 97, 99,
            104, 97, 98, 108, 101>>
      [] text = "Facilitator verify returned" ->
            <<70, 97, 99, 105, 108, 105, 116, 97, 116, 111, 114, 32, 118, 101, 114, 105, 102,
            121, 32, 114, 101, 116, 117, 114, 110, 101, 100>>
      [] text = "Facilitator settle returned" ->
            <<70, 97, 99, 105, 108, 105, 116, 97, 116, 111, 114, 32, 115, 101, 116, 116, 108,
            101, 32, 114, 101, 116, 117, 114, 110, 101, 100>>
      [] text = "Payment verification failed" ->
            <<80, 97, 121, 109, 101, 110, 116, 32, 118, 101, 114, 105, 102, 105, 99, 97, 116,
            105, 111, 110, 32, 102, 97, 105, 108, 101, 100>>
      [] text = "fetch failed" ->
            <<102, 101, 116, 99, 104, 32, 102, 97, 105, 108, 101, 100>>
      [] text = "The operation was aborted due to timeout" ->
            <<84, 104, 101, 32, 111, 112, 101, 114, 97, 116, 105, 111, 110, 32, 119, 97, 115,
            32, 97, 98, 111, 114, 116, 101, 100, 32, 100, 117, 101, 32, 116, 111, 32, 116, 105,
            109, 101, 111, 117, 116>>
      [] text = "terminated" ->
            <<116, 101, 114, 109, 105, 110, 97, 116, 101, 100>>
      [] text = "Unexpected token '<', \"<html>Bad \"... is not valid JSON" ->
            <<85, 110, 101, 120, 112, 101, 99, 116, 101, 100, 32, 116, 111, 107, 101, 110, 32,
            39, 60, 39, 44, 32, 34, 60, 104, 116, 109, 108, 62, 66, 97, 100, 32, 34, 46, 46, 46,
            32, 105, 115, 32, 110, 111, 116, 32, 118, 97, 108, 105, 100, 32, 74, 83, 79, 78>>
      [] text = "Unexpected token 'o', \"not json\" is not valid JSON" ->
            <<85, 110, 101, 120, 112, 101, 99, 116, 101, 100, 32, 116, 111, 107, 101, 110, 32,
            39, 111, 39, 44, 32, 34, 110, 111, 116, 32, 106, 115, 111, 110, 34, 32, 105, 115,
            32, 110, 111, 116, 32, 118, 97, 108, 105, 100, 32, 74, 83, 79, 78>>
      [] text = "Unexpected end of JSON input" ->
            <<85, 110, 101, 120, 112, 101, 99, 116, 101, 100, 32, 101, 110, 100, 32, 111, 102,
            32, 74, 83, 79, 78, 32, 105, 110, 112, 117, 116>>
      [] text = "Cannot read properties of null (reading 'isValid')" ->
            <<67, 97, 110, 110, 111, 116, 32, 114, 101, 97, 100, 32, 112, 114, 111, 112, 101,
            114, 116, 105, 101, 115, 32, 111, 102, 32, 110, 117, 108, 108, 32, 40, 114, 101, 97,
            100, 105, 110, 103, 32, 39, 105, 115, 86, 97, 108, 105, 100, 39, 41>>
      [] text = "<html>Bad Gateway</html>" ->
            <<60, 104, 116, 109, 108, 62, 66, 97, 100, 32, 71, 97, 116, 101, 119, 97, 121, 60,
            47, 104, 116, 109, 108, 62>>
      [] text = "{}" ->
            <<123, 125>>
      [] text = "{\"v\":1}" ->
            <<123, 34, 118, 34, 58, 49, 125>>
      [] text = "not json" ->
            <<110, 111, 116, 32, 106, 115, 111, 110>>
      [] text = "{\"isValid\":true,\"payer\":\"0xABC\"}" ->
            <<123, 34, 105, 115, 86, 97, 108, 105, 100, 34, 58, 116, 114, 117, 101, 44, 34, 112,
            97, 121, 101, 114, 34, 58, 34, 48, 120, 65, 66, 67, 34, 125>>
      [] text = "{\"isValid\":true}" ->
            <<123, 34, 105, 115, 86, 97, 108, 105, 100, 34, 58, 116, 114, 117, 101, 125>>
      [] text = "{\"isValid\":false,\"invalidReason\":\"expired\"}" ->
            <<123, 34, 105, 115, 86, 97, 108, 105, 100, 34, 58, 102, 97, 108, 115, 101, 44, 34,
            105, 110, 118, 97, 108, 105, 100, 82, 101, 97, 115, 111, 110, 34, 58, 34, 101, 120,
            112, 105, 114, 101, 100, 34, 125>>
      [] text = "{\"isValid\":false}" ->
            <<123, 34, 105, 115, 86, 97, 108, 105, 100, 34, 58, 102, 97, 108, 115, 101, 125>>
      [] text = "{\"success\":true,\"transaction\":\"0xT1\",\"payer\":\"0xABC\"}" ->
            <<123, 34, 115, 117, 99, 99, 101, 115, 115, 34, 58, 116, 114, 117, 101, 44, 34, 116,
            114, 97, 110, 115, 97, 99, 116, 105, 111, 110, 34, 58, 34, 48, 120, 84, 49, 34, 44,
            34, 112, 97, 121, 101, 114, 34, 58, 34, 48, 120, 65, 66, 67, 34, 125>>
      [] text = "{ \"success\": true, \"transaction\": \"0xT1\", \"payer\": \"0xABC\" }" ->
            <<123, 32, 34, 115, 117, 99, 99, 101, 115, 115, 34, 58, 32, 116, 114, 117, 101, 44,
            32, 34, 116, 114, 97, 110, 115, 97, 99, 116, 105, 111, 110, 34, 58, 32, 34, 48, 120,
            84, 49, 34, 44, 32, 34, 112, 97, 121, 101, 114, 34, 58, 32, 34, 48, 120, 65, 66, 67,
            34, 32, 125>>
      [] text = "{\"success\":true}" ->
            <<123, 34, 115, 117, 99, 99, 101, 115, 115, 34, 58, 116, 114, 117, 101, 125>>
      [] text = "{\"success\":false,\"errorReason\":\"insufficient funds\"}" ->
            <<123, 34, 115, 117, 99, 99, 101, 115, 115, 34, 58, 102, 97, 108, 115, 101, 44, 34,
            101, 114, 114, 111, 114, 82, 101, 97, 115, 111, 110, 34, 58, 34, 105, 110, 115, 117,
            102, 102, 105, 99, 105, 101, 110, 116, 32, 102, 117, 110, 100, 115, 34, 125>>
      [] text = "{\"success\":false,\"errorReason\":\"expired\",\"transaction\":\"\"}" ->
            <<123, 34, 115, 117, 99, 99, 101, 115, 115, 34, 58, 102, 97, 108, 115, 101, 44, 34,
            101, 114, 114, 111, 114, 82, 101, 97, 115, 111, 110, 34, 58, 34, 101, 120, 112, 105,
            114, 101, 100, 34, 44, 34, 116, 114, 97, 110, 115, 97, 99, 116, 105, 111, 110, 34,
            58, 34, 34, 125>>
      [] text = "{\"success\":false,\"errorReason\":\"reverted\",\"transaction\":\"0xT2\",\"payer\":\"0xABC\"}" ->
            <<123, 34, 115, 117, 99, 99, 101, 115, 115, 34, 58, 102, 97, 108, 115, 101, 44, 34,
            101, 114, 114, 111, 114, 82, 101, 97, 115, 111, 110, 34, 58, 34, 114, 101, 118, 101,
            114, 116, 101, 100, 34, 44, 34, 116, 114, 97, 110, 115, 97, 99, 116, 105, 111, 110,
            34, 58, 34, 48, 120, 84, 50, 34, 44, 34, 112, 97, 121, 101, 114, 34, 58, 34, 48,
            120, 65, 66, 67, 34, 125>>
      [] text = "1" ->
            <<49>>
      [] text = "/" ->
            <<47>>
      [] text = "/api/other" ->
            <<47, 97, 112, 105, 47, 111, 116, 104, 101, 114>>
      [] text = "{\"success\":1,\"transaction\":\"0xT1\",\"payer\":\"0xABC\"}" ->
            <<123, 34, 115, 117, 99, 99, 101, 115, 115, 34, 58, 49, 44, 34, 116, 114, 97, 110,
            115, 97, 99, 116, 105, 111, 110, 34, 58, 34, 48, 120, 84, 49, 34, 44, 34, 112, 97,
            121, 101, 114, 34, 58, 34, 48, 120, 65, 66, 67, 34, 125>>
      [] text = "{\"isValid\":1,\"payer\":\"0xABC\"}" ->
            <<123, 34, 105, 115, 86, 97, 108, 105, 100, 34, 58, 49, 44, 34, 112, 97, 121, 101,
            114, 34, 58, 34, 48, 120, 65, 66, 67, 34, 125>>
      [] text = "{\"x402Version\":2,\"resource\":{\"url\":\"" ->
            <<123, 34, 120, 52, 48, 50, 86, 101, 114, 115, 105, 111, 110, 34, 58, 50, 44, 34,
            114, 101, 115, 111, 117, 114, 99, 101, 34, 58, 123, 34, 117, 114, 108, 34, 58, 34>>
      [] text = "Micropaid web search \\u2014 $0.002 per query" ->
            <<77, 105, 99, 114, 111, 112, 97, 105, 100, 32, 119, 101, 98, 32, 115, 101, 97, 114,
            99, 104, 32, 226, 128, 148, 32, 36, 48, 46, 48, 48, 50, 32, 112, 101, 114, 32, 113,
            117, 101, 114, 121>>
      [] text = "\",\"description\":\"Micropaid web search \\u2014 $0.002 per query\",\"mimeType\":\"application/json\"},\"accepts\":[{\"scheme\":\"exact\",\"network\":\"eip155:84532\",\"amount\":\"2000\",\"asset\":\"0x036CbD53842c5426634e7929541eC2318f3dCF7e\",\"payTo\":\"\",\"maxTimeoutSeconds\":60,\"extra\":{\"name\":\"USD Coin\",\"version\":\"2\"}}]}" ->
            <<34, 44, 34, 100, 101, 115, 99, 114, 105, 112, 116, 105, 111, 110, 34, 58, 34, 77,
            105, 99, 114, 111, 112, 97, 105, 100, 32, 119, 101, 98, 32, 115, 101, 97, 114, 99,
            104, 32, 226, 128, 148, 32, 36, 48, 46, 48, 48, 50, 32, 112, 101, 114, 32, 113, 117,
            101, 114, 121, 34, 44, 34, 109, 105, 109, 101, 84, 121, 112, 101, 34, 58, 34, 97,
            112, 112, 108, 105, 99, 97, 116, 105, 111, 110, 47, 106, 115, 111, 110, 34, 125, 44,
            34, 97, 99, 99, 101, 112, 116, 115, 34, 58, 91, 123, 34, 115, 99, 104, 101, 109,
            101, 34, 58, 34, 101, 120, 97, 99, 116, 34, 44, 34, 110, 101, 116, 119, 111, 114,
            107, 34, 58, 34, 101, 105, 112, 49, 53, 53, 58, 56, 52, 53, 51, 50, 34, 44, 34, 97,
            109, 111, 117, 110, 116, 34, 58, 34, 50, 48, 48, 48, 34, 44, 34, 97, 115, 115, 101,
            116, 34, 58, 34, 48, 120, 48, 51, 54, 67, 98, 68, 53, 51, 56, 52, 50, 99, 53, 52,
            50, 54, 54, 51, 52, 101, 55, 57, 50, 57, 53, 52, 49, 101, 67, 50, 51, 49, 56, 102,
            51, 100, 67, 70, 55, 101, 34, 44, 34, 112, 97, 121, 84, 111, 34, 58, 34, 34, 44, 34,
            109, 97, 120, 84, 105, 109, 101, 111, 117, 116, 83, 101, 99, 111, 110, 100, 115, 34,
            58, 54, 48, 44, 34, 101, 120, 116, 114, 97, 34, 58, 123, 34, 110, 97, 109, 101, 34,
            58, 34, 85, 83, 68, 32, 67, 111, 105, 110, 34, 44, 34, 118, 101, 114, 115, 105, 111,
            110, 34, 58, 34, 50, 34, 125, 125, 93, 125>>

\* The base64 alphabet, value 0 first.
Base64Alphabet ==
    << "A", "B", "C", "D", "E", "F", "G", "H", "I", "J", "K", "L", "M",
       "N", "O", "P", "Q", "R", "S", "T", "U", "V", "W", "X", "Y", "Z",
       "a", "b", "c", "d", "e", "f", "g", "h", "i", "j", "k", "l", "m",
       "n", "o", "p", "q", "r", "s", "t", "u", "v", "w", "x", "y", "z",
       "0", "1", "2", "3", "4", "5", "6", "7", "8", "9", "+", "/" >>

\* buffer.toString("base64"): three bytes become four characters, the last
\* group is padded with "=".  The value is a sequence of characters.
Base64Encode(bytes) ==
    LET n == Len(bytes)
        byte(i) == IF i <= n THEN bytes[i] ELSE 0
        group(g) == byte(3 * g + 1) * 65536 + byte(3 * g + 2) * 256 + byte(3 * g + 3)
        char(i) == LET g == (i - 1) \div 4
                       k == (i - 1) % 4
                   IN  IF 3 * g + k > n
                       THEN "="
                       ELSE Base64Alphabet[((group(g) \div (64 ^ (3 - k))) % 64) + 1]
    IN  [i \in 1 .. 4 * ((n + 2) \div 3) |-> char(i)]

\* The decimal digits of a non-negative integer.
RECURSIVE Decimal(_)
Decimal(n) ==
    IF n < 10 THEN <<48 + n>> ELSE Decimal(n \div 10) \o <<48 + (n % 10)>>

\* A JavaScript value about to be serialised: a string (its bytes), a
\* number, a literal (true, false, null or the text of a scalar), an array
\* or an object (its members <<name, value>> in order).
TStr(bytes) == [t |-> "string", v |-> bytes]
TNum(n) == [t |-> "number", v |-> n]
TLit(text) == [t |-> "literal", v |-> text]
TArr(items) == [t |-> "array", v |-> items]
TObj(members) == [t |-> "object", v |-> members]

\* A JSON string literal: quotation mark and reverse solidus are escaped
\* (the texts hold no control characters).
RECURSIVE JsonEscape(_)
JsonEscape(bytes) ==
    IF bytes = <<>> THEN <<>>
    ELSE IF Head(bytes) \in {34, 92}
    THEN <<92, Head(bytes)>> \o JsonEscape(Tail(bytes))
    ELSE <<Head(bytes)>> \o JsonEscape(Tail(bytes))

JsonQuote(bytes) ==
    <<34>> \o (IF \E i \in 1 .. Len(bytes) : bytes[i] \in {34, 92}
               THEN JsonEscape(bytes)
               ELSE bytes) \o <<34>>

\* The parts joined with commas.
RECURSIVE JoinComma(_)
JoinComma(parts) ==
    IF parts = <<>> THEN <<>>
    ELSE IF Len(parts) = 1 THEN parts[1]
    ELSE parts[1] \o <<44>> \o JoinComma(Tail(parts))

\* JSON.stringify(value), as bytes.
RECURSIVE JsonStringify(_)
JsonStringify(value) ==
    CASE value.t = "string" -> JsonQuote(value.v)
      [] value.t = "number" -> Decimal(value.v)
      [] value.t = "literal" -> Utf8(value.v)
      [] value.t = "array" ->
            <<91>> \o JoinComma([i \in 1 .. Len(value.v) |-> JsonStringify(value.v[i])])
                   \o <<93>>
      [] value.t = "object" ->
            <<123>> \o JoinComma([i \in 1 .. Len(value.v) |->
                                    JsonQuote(Utf8(value.v[i][1])) \o <<58>>
                                        \o JsonStringify(value.v[i][2])])
                    \o <<125>>

\* --------------------------------------------------------------- requests
Chars == {" ", "b"}
Whitespace == {" "}

QStrings == UNION {[1 .. n -> Chars] : n \in 0 .. MaxQLen}

\* req.query.q: undefined, a string, or an array (q given twice).
QueryParams ==
    {[type |-> "undefined", val |-> <<>>], [type |-> "array", val |-> <<>>]}
        \cup {[type |-> "string", val |-> s] : s \in QStrings}

Hdr(type, val) == [type |-> type, val |-> val]
HdrAbsent == Hdr("undefined", "")

\* req.headers["payment-signature"] and req.headers["x-payment"].
SigHeaders ==
    {HdrAbsent, Hdr("array", ""), Hdr("string", ""), Hdr("string", TokEmptyObj),
     Hdr("string", TokNotJson)}
V1Headers ==
    {HdrAbsent, Hdr("string", ""), Hdr("string", TokPayload), Hdr("string", TokNotBase64)}

Methods == {"GET", "POST"}

Requests == [method : Methods, q : QueryParams, sig : SigHeaders, v1 : V1Headers]

NoRequest == [method |-> "none", q |-> [type |-> "undefined", val |-> <<>>],
              sig |-> HdrAbsent, v1 |-> HdrAbsent]

\* String.prototype.trim on a sequence of characters.
RECURSIVE TrimStart(_)
TrimStart(s) ==
    IF s # <<>> /\ Head(s) \in Whitespace THEN TrimStart(Tail(s)) ELSE s

RECURSIVE TrimEnd(_)
TrimEnd(s) ==
    IF s # <<>> /\ s[Len(s)] \in Whitespace
    THEN TrimEnd(SubSeq(s, 1, Len(s) - 1))
    ELSE s

Trim(s) == TrimEnd(TrimStart(s))

\* ------------------------------------------------------- lib/x402.ts: config
\* The defaults the module-level constants take when the environment sets
\* nothing.
FACILITATOR_URL == "https://www.x402.org/facilitator"
PAY_TO == ""
NETWORK == "eip155:84532"
ASSET_ADDRESS == "0x036CbD53842c5426634e7929541eC2318f3dCF7e"
PRICE_UNITS == "2000"
MaxTimeoutSeconds == 60

RESOURCE == "/api/search"

\* ------------------------------------------------------ challenge builder
\* Mutant: the version of the token contract depends on the path.
buildPaymentRequired_VersionByPath(resource) ==
    [x402Version |-> 2,
     resource |-> [url |-> resource,
                   description |-> "Micropaid web search \\u2014 $0.002 per query",
                   mimeType |-> "application/json"],
     accepts |-> << [scheme |-> "exact",
                     network |-> NETWORK,
                     amount |-> PRICE_UNITS,
                     asset |-> ASSET_ADDRESS,
                     payTo |-> PAY_TO,
                     maxTimeoutSeconds |-> MaxTimeoutSeconds,
                     extra |-> [name |-> "USD Coin",
                                version |-> IF resource = RESOURCE THEN "2" ELSE "1"]] >>]

\* Mutant: only the search endpoint is priced.
buildPaymentRequired_PricedByPath(resource) ==
    [x402Version |-> 2,
     resource |-> [url |-> resource,
                   description |-> "Micropaid web search \\u2014 $0.002 per query",
                   mimeType |-> "application/json"],
     accepts |-> << [scheme |-> "exact",
                     network |-> NETWORK,
                     amount |-> IF resource = RESOURCE THEN PRICE_UNITS ELSE "0",
                     asset |-> ASSET_ADDRESS,
                     payTo |-> PAY_TO,
                     maxTimeoutSeconds |-> MaxTimeoutSeconds,
                     extra |-> [name |-> "USD Coin", version |-> "2"]] >>]

buildPaymentRequired(resource) ==
    [x402Version |-> 2,
     resource |-> [url |-> resource,
                   description |-> "Micropaid web search \\u2014 $0.002 per query",
                   mimeType |-> "application/json"],
     accepts |-> << [scheme |-> "exact",
                     network |-> NETWORK,
                     amount |-> PRICE_UNITS,
                     asset |-> ASSET_ADDRESS,
                     payTo |-> PAY_TO,
                     maxTimeoutSeconds |-> MaxTimeoutSeconds,
                     extra |-> [name |-> "USD Coin", version |-> "2"]] >>]

\* The challenge as the JavaScript object it is.
RequirementJson(r) ==
    TObj(<< <<"scheme", TStr(Utf8(r.scheme))>>,
            <<"network", TStr(Utf8(r.network))>>,
            <<"amount", TStr(Utf8(r.amount))>>,
            <<"asset", TStr(Utf8(r.asset))>>,
            <<"payTo", TStr(Utf8(r.payTo))>>,
            <<"maxTimeoutSeconds", TNum(r.maxTimeoutSeconds)>>,
            <<"extra", TObj(<< <<"name", TStr(Utf8(r.extra.name))>>,
                               <<"version", TStr(Utf8(r.extra.version))>> >>)>> >>)

ChallengeMembers(paymentRequired) ==
    << <<"x402Version", TNum(paymentRequired.x402Version)>>,
       <<"resource", TObj(<< <<"url", TStr(Utf8(paymentRequired.resource.url))>>,
                             <<"description",
                               TStr(Utf8(paymentRequired.resource.description))>>,
                             <<"mimeType",
                               TStr(Utf8(paymentRequired.resource.mimeType))>> >>)>>,
       <<"accepts", TArr([i \in 1 .. Len(paymentRequired.accepts) |->
                            RequirementJson(paymentRequired.accepts[i])])>> >>

ChallengeJson(paymentRequired) == TObj(ChallengeMembers(paymentRequired))

\* --------------------------------------------------------------- responses
NoChallenge == buildPaymentRequired("")
NoPayment == [transaction |-> Undef, payer |-> Undef]
NoPricing == [currency |-> "", amount |-> "", unit |-> ""]
NoIdentity == [standard |-> "", chain |-> "", contract |-> "", tokenId |-> "",
               profileUrl |-> <<>>]

NoBody ==
    [kind |-> "none", error |-> "", challenge |-> NoChallenge, query |-> <<>>,
     results |-> <<>>, search_mode |-> "", pricing |-> NoPricing, provider |-> "",
     agent_identity |-> NoIdentity, hasPayment |-> FALSE, payment |-> NoPayment]

\* A response object on which nothing has been set.
NewResponse ==
    [status |-> 0,
     headers |-> {},
     hPaymentRequired |-> <<>>,
     hWWWAuthenticate |-> <<"", "">>,
     hPaymentResponse |-> <<>>,
     body |-> NoBody]

\* res.status(code).json({ error })
SendError(res, code, message) ==
    [res EXCEPT !.status = code,
                !.body = [NoBody EXCEPT !.kind = "error", !.error = message]]

ChallengeError ==
    "Payment required. Include PAYMENT-SIGNATURE header with a valid x402 payment."

\* The resource paths a challenge is built for: the handler's, and the
\* empty path of a response on which nothing has been set.
ResourcePaths == {RESOURCE, ""}

\* Buffer.from(JSON.stringify(paymentRequired)).toString("base64"), by
\* resource path.
EncodedChallenge[resource \in ResourcePaths] ==
    Base64Encode(JsonStringify(ChallengeJson(buildPaymentRequired(resource))))

\* Mutant: the header carries the challenge under the version tag 1.
EncodedChallenge_V1[resource \in ResourcePaths] ==
    Base64Encode(JsonStringify(ChallengeJson(
        [buildPaymentRequired(resource) EXCEPT !.x402Version = 1])))

ChallengeResponse_HeaderV1(res, resource, status) ==
    LET paymentRequired == buildPaymentRequired(resource)
        encoded == EncodedChallenge_V1[resource]
    IN  [res EXCEPT
            !.headers = @ \cup {"PAYMENT-REQUIRED", "WWW-Authenticate"},
            !.hPaymentRequired = encoded,
            !.hWWWAuthenticate = <<"x402 facilitator=", FACILITATOR_URL>>,
            !.status = status,
            !.body = [NoBody EXCEPT !.kind = "challenge",
                                    !.challenge = paymentRequired,
                                    !.error = ChallengeError]]

\* The two headers, the status and the body of a challenge response.
ChallengeResponse(res, resource, status) ==
    LET paymentRequired == buildPaymentRequired(resource)
        encoded == EncodedChallenge[resource]
    IN  [res EXCEPT
            !.headers = @ \cup {"PAYMENT-REQUIRED", "WWW-Authenticate"},
            !.hPaymentRequired = encoded,
            !.hWWWAuthenticate = <<"x402 facilitator=", FACILITATOR_URL>>,
            !.status = status,
            !.body = [NoBody EXCEPT !.kind = "challenge",
                                    !.challenge = paymentRequired,
                                    !.error = ChallengeError]]

\* Mutant: the challenge goes out as 401 Unauthorized.
send402_Unauthorized(res, resource) == ChallengeResponse(res, resource, 401)

send402(res, resource) == ChallengeResponse(res, resource, 402)

\* ---------------------------------------------------- signature extractor
\* The token, or "null" when neither header holds a non-empty string.
Null == "null"

\* Mutant: the legacy X-PAYMENT header is read first.
extractPaymentSignature_LegacyFirst(req) ==
    IF req.v1.type = "string" /\ req.v1.val # "" THEN req.v1.val
    ELSE IF req.sig.type = "string" /\ req.sig.val # "" THEN req.sig.val
    ELSE Null

\* Mutant: the legacy X-PAYMENT header is not read.
extractPaymentSignature_NoLegacy(req) ==
    IF req.sig.type = "string" /\ req.sig.val # "" THEN req.sig.val ELSE Null

extractPaymentSignature(req) ==
    IF req.sig.type = "string" /\ req.sig.val # "" THEN req.sig.val
    ELSE IF req.v1.type = "string" /\ req.v1.val # "" THEN req.v1.val
    ELSE Null

\* ------------------------------------------------------ facilitator client
\* What a fetch to the facilitator can come back with: a rejected promise
\* (network failure, AbortSignal timeout) or an HTTP response whose body is
\* readable or not.
Reply(kind, status, readable, text) ==
    [kind |-> kind, status |-> status, readable |-> readable, text |-> text]
NoReply == Reply("none", 0, FALSE, "")

ReplyNetErr == Reply("neterr", 0, FALSE, "")
ReplyTimeout == Reply("timeout", 0, FALSE, "")

\* response.ok
ResponseOk(reply) == reply.status >= 200 /\ reply.status <= 299

\* A response whose headers are in and whose body is still to be read: the
\* state of a call between await fetch(...) and await response.json() or
\* response.text().
Headers(status) == Reply("headers", status, FALSE, "")

\* What await fetch(...) can settle with, of the replies: a rejection, or
\* the headers of a response.
FetchSettles(replies) ==
    {r \in replies : r.kind # "http"}
        \cup {Headers(r.status) : r \in {x \in replies : x.kind = "http"}}

\* The read of the body was ended by the AbortSignal of the fetch, whose
\* timeout runs on after the headers are in.
BodyTimeout(status) == Reply("timeout", status, FALSE, "")

\* What the await of the body can then settle with: a body, a read that
\* fails, or the timeout of the fetch.  On a status that is not a success
\* the body is read with response.text().catch(() => ""), which turns the
\* read ended by the timeout into the empty text.
BodiesOf(replies, status) ==
    {r \in replies : r.kind = "http" /\ r.status = status}
        \cup (IF ResponseOk(Headers(status))
              THEN {BodyTimeout(status)}
              ELSE {Reply("http", status, FALSE, "")})

VerifyReplies ==
    {ReplyNetErr, ReplyTimeout, Reply("http", 200, FALSE, ""), Reply("http", 500, FALSE, "")}
        \cup {Reply("http", 200, TRUE, t) :
                t \in {TxtValid, TxtValidNoPayer, TxtExpired, TxtInvalidNoReason,
                       TxtEmptyObj, TxtNull, TxtFive, TxtHtml}}
        \cup {Reply("http", 500, TRUE, t) : t \in {TxtHtml, TxtValid}}

SettleReplies ==
    {ReplyNetErr, ReplyTimeout, Reply("http", 200, FALSE, ""), Reply("http", 500, FALSE, "")}
        \cup {Reply("http", 200, TRUE, t) :
                t \in {TxtSettled, TxtSettledSpaced, TxtSettledNoTx, TxtSettledOne,
                       TxtInsufficient, TxtFailedEmptyTx, TxtReverted, TxtEmptyObj, TxtNull,
                       TxtFive, TxtHtml}}
        \cup {Reply("http", 500, TRUE, t) : t \in {TxtHtml, TxtSettled}}

\* await response.text().catch(() => "")
ResponseText(reply) == IF reply.readable THEN reply.text ELSE ""

\* The message of the SyntaxError that response.json() rejects with for a
\* body that is not JSON.
JsonSyntaxError(text) ==
    CASE text = TxtHtml -> "Unexpected token '<', \"<html>Bad \"... is not valid JSON"
      [] text = TxtNotJson -> "Unexpected token 'o', \"not json\" is not valid JSON"
      [] text = "" -> "Unexpected end of JSON input"

\* (err as Error).message of what the try block can throw: the fetch
\* rejecting, the body not being readable or not being JSON, and, in
\* verifyPayment, result.isValid being read on null.
FetchFailure(reply) ==
    CASE reply.kind = "neterr" -> "fetch failed"
      [] reply.kind = "timeout" -> "The operation was aborted due to timeout"
      [] ~reply.readable -> "terminated"
      [] ~JsonParse(reply.text).ok -> JsonSyntaxError(reply.text)
      [] OTHER -> "Cannot read properties of null (reading 'isValid')"

Verbatim(s) == IF s = Undef THEN NoErr ELSE Err("verbatim", 0, s)

Verification(valid, payer, error) == [valid |-> valid, payer |-> payer, error |-> error]
NoVerification == Verification(FALSE, Undef, NoErr)

\* Mutant: the decode never fails.
TokenDecodes_Always(paymentSignature) == TRUE

\* Whether the token decodes, so that the call goes on to its fetch.
TokenDecodes(paymentSignature) == DecodeToken(paymentSignature).ok

\* Mutant: the facilitator is sent the terms of an earlier price.
FacilitatorCall_StaleAmount(endpoint, paymentSignature, resource) ==
    [url |-> <<FACILITATOR_URL, endpoint>>,
     paymentPayload |-> DecodeToken(paymentSignature).src,
     paymentRequirements |->
         [buildPaymentRequired(resource).accepts[1] EXCEPT !.amount = "1000"]]

\* The body of the POST to <facilitator>/verify and <facilitator>/settle.
FacilitatorCall(endpoint, paymentSignature, resource) ==
    [url |-> <<FACILITATOR_URL, endpoint>>,
     paymentPayload |-> DecodeToken(paymentSignature).src,
     paymentRequirements |-> buildPaymentRequired(resource).accepts[1]]

\* Mutant: the facilitator's reason for a rejection is dropped.
verifyPayment_ReasonDropped(paymentSignature, resource, reply) ==
    IF ~TokenDecodes(paymentSignature)
    THEN Verification(FALSE, Undef, Err("Invalid payment signature encoding", 0, ""))
    ELSE IF reply.kind # "http"
    THEN Verification(FALSE, Undef, Err("Facilitator unreachable", 0, FetchFailure(reply)))
    ELSE IF ~ResponseOk(reply)
    THEN Verification(FALSE, Undef,
                      Err("Facilitator verify returned", reply.status, ResponseText(reply)))
    ELSE IF ~reply.readable \/ ~JsonParse(reply.text).ok \/ JsonParse(reply.text).t = "null"
    THEN Verification(FALSE, Undef, Err("Facilitator unreachable", 0, FetchFailure(reply)))
    ELSE LET result == JsonParse(reply.text)
         IN  IF ~Truthy(result.isValid)
             THEN Verification(FALSE, Undef, Err("Payment verification failed", 0, ""))
             ELSE Verification(TRUE, result.payer, NoErr)

\* Mutant: a facilitator that cannot be reached counts as a valid payment.
verifyPayment_FailOpen(paymentSignature, resource, reply) ==
    IF ~TokenDecodes(paymentSignature)
    THEN Verification(FALSE, Undef, Err("Invalid payment signature encoding", 0, ""))
    ELSE IF reply.kind # "http"
    THEN Verification(TRUE, Undef, NoErr)
    ELSE IF ~ResponseOk(reply)
    THEN Verification(FALSE, Undef,
                      Err("Facilitator verify returned", reply.status, ResponseText(reply)))
    ELSE IF ~reply.readable \/ ~JsonParse(reply.text).ok \/ JsonParse(reply.text).t = "null"
    THEN Verification(FALSE, Undef, Err("Facilitator unreachable", 0, FetchFailure(reply)))
    ELSE LET result == JsonParse(reply.text)
         IN  IF ~Truthy(result.isValid)
             THEN Verification(FALSE, Undef,
                               IF Truthy(result.invalidReason)
                               THEN Verbatim(result.invalidReason)
                               ELSE Err("Payment verification failed", 0, ""))
             ELSE Verification(TRUE, result.payer, NoErr)

\* verifyPayment, given the reply its fetch gets (not read when the token
\* does not decode).
verifyPayment(paymentSignature, resource, reply) ==
    IF ~TokenDecodes(paymentSignature)
    THEN Verification(FALSE, Undef, Err("Invalid payment signature encoding", 0, ""))
    ELSE IF reply.kind # "http"
    THEN Verification(FALSE, Undef, Err("Facilitator unreachable", 0, FetchFailure(reply)))
    ELSE IF ~ResponseOk(reply)
    THEN Verification(FALSE, Undef,
                      Err("Facilitator verify returned", reply.status, ResponseText(reply)))
    ELSE IF ~reply.readable \/ ~JsonParse(reply.text).ok \/ JsonParse(reply.text).t = "null"
    THEN Verification(FALSE, Undef, Err("Facilitator unreachable", 0, FetchFailure(reply)))
    ELSE LET result == JsonParse(reply.text)
         IN  IF ~Truthy(result.isValid)
             THEN Verification(FALSE, Undef,
                               IF Truthy(result.invalidReason)
                               THEN Verbatim(result.invalidReason)
                               ELSE Err("Payment verification failed", 0, ""))
             ELSE Verification(TRUE, result.payer, NoErr)

\* A SettlementResult: t is "object" for an object, "null" or "scalar" for
\* what response.json() can also return; src is the text of a scalar, keys
\* the member names of an object in their order.
Settlement(t, src, keys, success, transaction, payer, errorReason) ==
    [t |-> t, src |-> src, keys |-> keys, success |-> success,
     transaction |-> transaction, payer |-> payer, errorReason |-> errorReason]
NoSettlement == Settlement("none", "", <<>>, Undef, Undef, Undef, NoErr)

\* { success: false, errorReason }
SettlementFailed(errorReason) ==
    Settlement("object", "", <<"success", "errorReason">>, "false", Undef, Undef,
               errorReason)

\* return await response.json(): the parsed body as it is.
SettlementFromJson(jv) ==
    Settlement(jv.t, jv.src, jv.keys, jv.success, jv.transaction, jv.payer,
               Verbatim(jv.errorReason))

\* Mutant: the status of the facilitator's answer is not looked at.
settlePayment_NoStatusCheck(paymentSignature, resource, reply) ==
    IF ~TokenDecodes(paymentSignature)
    THEN SettlementFailed(Err("Invalid payment signature encoding", 0, ""))
    ELSE IF reply.kind # "http"
    THEN SettlementFailed(Err("Facilitator unreachable", 0, FetchFailure(reply)))
    ELSE IF ~reply.readable \/ ~JsonParse(reply.text).ok
    THEN SettlementFailed(Err("Facilitator unreachable", 0, FetchFailure(reply)))
    ELSE SettlementFromJson(JsonParse(reply.text))

settlePayment(paymentSignature, resource, reply) ==
    IF ~TokenDecodes(paymentSignature)
    THEN SettlementFailed(Err("Invalid payment signature encoding", 0, ""))
    ELSE IF reply.kind # "http"
    THEN SettlementFailed(Err("Facilitator unreachable", 0, FetchFailure(reply)))
    ELSE IF ~ResponseOk(reply)
    THEN SettlementFailed(Err("Facilitator settle returned", reply.status, ResponseText(reply)))
    ELSE IF ~reply.readable \/ ~JsonParse(reply.text).ok
    THEN SettlementFailed(Err("Facilitator unreachable", 0, FetchFailure(reply)))
    ELSE SettlementFromJson(JsonParse(reply.text))

\* The text of an error detail.
ErrMessage(err) ==
    CASE err.code = Undef -> <<>>
      [] err.code = "verbatim" -> Utf8(err.text)
      [] err.code = "Facilitator unreachable" ->
            Utf8(err.code) \o <<58, 32>> \o Utf8(err.text)
      [] err.status # 0 ->
            Utf8(err.code) \o <<32>> \o Decimal(err.status) \o <<58, 32>> \o Utf8(err.text)
      [] OTHER -> Utf8(err.code)

\* The settlement result as the JavaScript value it is.
SettlementMember(settlement, key) ==
    CASE key = "success" -> TLit(settlement.success)
      [] key = "transaction" -> TStr(Utf8(settlement.transaction))
      [] key = "payer" -> TStr(Utf8(settlement.payer))
      [] key = "errorReason" -> TStr(ErrMessage(settlement.errorReason))

SettlementJson(settlement) ==
    IF settlement.t = "object"
    THEN TObj([i \in 1 .. Len(settlement.keys) |->
                 <<settlement.keys[i], SettlementMember(settlement, settlement.keys[i])>>])
    ELSE TLit(settlement.src)

\* Mutant: the receipt carries the transaction id alone.
encodePaymentResponse_TransactionOnly(settlement) ==
    Base64Encode(JsonStringify(TStr(Utf8(settlement.transaction))))

\* Buffer.from(JSON.stringify(settlement)).toString("base64")
encodePaymentResponse(settlement) == Base64Encode(JsonStringify(SettlementJson(settlement)))

\* -------------------------------------------------------- lib/search.ts
\* A text built from a template, the query and a position.
Text(tpl, arg, n) == [tpl |-> tpl, arg |-> arg, n |-> n]

SearchResult(title, url, snippet) == [title |-> title, url |-> url, snippet |-> snippet]

\* The five fixed results; %q is the query, %enc(q) is
\* encodeURIComponent(query), and the em dash of the titles is written
\* \u2014 as in the resource description.
stubResults(query) ==
    << SearchResult(Text("%q \\u2014 Wikipedia", query, 0),
                    Text("https://en.wikipedia.org/wiki/%enc(q)", query, 0),
                    Text("Comprehensive overview of %q from the free encyclopedia.", query, 0)),
       SearchResult(Text("%q \\u2014 Latest News", query, 0),
                    Text("https://news.ycombinator.com/item?id=00000", <<>>, 0),
                    Text("Discussion and latest developments about %q on Hacker News.", query, 0)),
       SearchResult(Text("Understanding %q \\u2014 A Beginner's Guide", query, 0),
                    Text("https://example.com/guide/%enc(q)", query, 0),
                    Text("Learn everything you need to know about %q in this guide.", query, 0)),
       SearchResult(Text("%q | Research Papers", query, 0),
                    Text("https://scholar.google.com/scholar?q=%enc(q)", query, 0),
                    Text("Academic papers and citations related to %q.", query, 0)),
       SearchResult(Text("%q \\u2014 Reddit Discussion", query, 0),
                    Text("https://www.reddit.com/search/?q=%enc(q)", query, 0),
                    Text("Community discussion and opinions about %q.", query, 0)) >>

\* A result block of the DuckDuckGo page, by what the three regular
\* expressions, extractDdgUrl and the filter make of it:
\*   "ok"        href and title match, the title is not empty and the URL is
\*               not a duckduckgo.com one
\*   "nomatch"   no href or no title match
\*   "internal"  href and title match, but the title is empty or the URL
\*               contains duckduckgo.com
\*   "malformed" href and title match, and the uddg value of the href is not
\*               a valid percent-encoding: decodeURIComponent throws URIError
BlockKinds == {"ok", "nomatch", "internal", "malformed"}
Pages == UNION {[1 .. n -> BlockKinds] : n \in 0 .. MaxBlocks}

MaxResults == 5

\* The result pushed for the block at position i.
BlockResult(i) ==
    SearchResult(Text("block title", <<>>, i), Text("block url", <<>>, i),
                 Text("block snippet", <<>>, i))

\* What the loop ends with: the results, or threw when extractDdgUrl threw.
Parsed(results) == [threw |-> FALSE, results |-> results]
ParseThrew == [threw |-> TRUE, results |-> <<>>]

\* Mutant: the loop does not stop at the maximum.
RECURSIVE ParseBlocks_NoCap(_, _, _)
ParseBlocks_NoCap(blocks, i, results) ==
    IF i > Len(blocks) THEN Parsed(results)
    ELSE IF blocks[i] = "malformed" THEN ParseThrew
    ELSE ParseBlocks_NoCap(blocks, i + 1,
                           IF blocks[i] = "ok" THEN Append(results, BlockResult(i))
                           ELSE results)

\* The loop over blocks.slice(1), from block i on.
RECURSIVE ParseBlocks(_, _, _)
ParseBlocks(blocks, i, results) ==
    IF i > Len(blocks) \/ Len(results) >= MaxResults THEN Parsed(results)
    ELSE IF blocks[i] = "malformed" THEN ParseThrew
    ELSE ParseBlocks(blocks, i + 1,
                     IF blocks[i] = "ok" THEN Append(results, BlockResult(i)) ELSE results)

\* What the fetch of the DuckDuckGo page can come back with.
DdgReply(kind, status, readable, blocks) ==
    [kind |-> kind, status |-> status, readable |-> readable, blocks |-> blocks]
NoDdgReply == DdgReply("none", 0, FALSE, <<>>)

DdgReplies ==
    {DdgReply("neterr", 0, FALSE, <<>>), DdgReply("timeout", 0, FALSE, <<>>),
     DdgReply("http", 503, TRUE, <<>>), DdgReply("http", 200, FALSE, <<>>)}
        \cup {DdgReply("http", 200, TRUE, b) : b \in Pages}

\* The replies the handler is run with: the pages of up to one block more
\* than the maximum of results, without "internal" blocks, which the loop
\* skips like "nomatch" ones.  searchDuckDuckGo by itself is run on every
\* page.
HandlerPages ==
    UNION {[1 .. n -> BlockKinds \ {"internal"}] : n \in 0 .. MaxResults + 1}
HandlerDdgReplies ==
    {r \in DdgReplies : r.kind # "http" \/ ~ResponseOk(r) \/ ~r.readable}
        \cup {DdgReply("http", 200, TRUE, b) : b \in HandlerPages}

\* What await fetch(url) settles with in a way that ends searchDuckDuckGo
\* (a rejection, a status that is not a success: line 99 throws without
\* reading the body), and what the read of the body (line 103) settles with:
\* a page, a read that fails, or the timeout of the fetch.
DdgEnds(replies) == {r \in replies : r.kind # "http" \/ ~ResponseOk(r)}
DdgBodies(replies) ==
    {r \in replies : r.kind = "http" /\ ResponseOk(r)}
        \cup {DdgReply("timeout", r.status, FALSE, <<>>) :
                 r \in {x \in replies : x.kind = "http" /\ ResponseOk(x)}}

\* searchDuckDuckGo: the results, or threw when the fetch rejects, the
\* status is not a success, the body cannot be read or a block's URL
\* cannot be decoded.
searchDuckDuckGo(query, reply) ==
    IF reply.kind # "http" \/ ~ResponseOk(reply) \/ ~reply.readable
    THEN ParseThrew
    ELSE ParseBlocks(reply.blocks, 1, <<>>)

\* The values of SEARCH_PROVIDER the process can be started with.
ProviderSettings == {Undef, "stub", "STUB"}

ToLowerCase(v) == IF v = "STUB" THEN "stub" ELSE v

\* (process.env.SEARCH_PROVIDER || "duckduckgo").toLowerCase()
Provider(setting) == ToLowerCase(IF Truthy(setting) THEN setting ELSE "duckduckgo")

SearchResponse(results, mode) == [results |-> results, search_mode |-> mode]

\* Mutant: a page without results is returned as the live answer.
executeSearch_EmptyLive(setting, query, reply) ==
    IF Provider(setting) = "stub"
    THEN SearchResponse(stubResults(query), "stub")
    ELSE LET live == searchDuckDuckGo(query, reply)
         IN  IF live.threw
             THEN SearchResponse(stubResults(query), "fallback_stub")
             ELSE SearchResponse(live.results, "duckduckgo")

\* executeSearch, given the reply its fetch gets (not read in stub mode).
executeSearch(setting, query, reply) ==
    IF Provider(setting) = "stub"
    THEN SearchResponse(stubResults(query), "stub")
    ELSE LET live == searchDuckDuckGo(query, reply)
         IN  IF live.threw \/ Len(live.results) = 0
             THEN SearchResponse(stubResults(query), "fallback_stub")
             ELSE SearchResponse(live.results, "duckduckgo")

\* ------------------------------------------------------- lib/identity.ts
getAgentIdentity ==
    [standard |-> "ERC-8004",
     chain |-> "base",
     contract |-> "0x8004A169FB4a3325136EB29fA0ceB6D2e539a432",
     tokenId |-> "1",
     profileUrl |-> <<"https://www.8004scan.io", "/agents/", "base", "/",
                      "0x8004A169FB4a3325136EB29fA0ceB6D2e539a432", "/", "1">>]

\* ------------------------------------- contracts/AgentIdentityRegistry.sol
\* The accounts that call the contract, and address(0).
Accounts == {"0xA1", "0xB2"}
ZeroAddress == "0x0"

\* The ids calls are made with: 0, which register never returns, and the ids
\* of the agents.
TokenIds == 0 .. MaxAgents

URIs == {"", "ipfs://a"}
MetadataKeys == {"service"}
\* bytes values: the empty value and one byte.
MetadataValues == {<<>>, <<1>>}

\* The storage of the contract: its own (lines 20-26) and, of the ERC721 it
\* extends, the owner of each token, the account approved for each token
\* and the operators each account has approved.
\* Of the functions it inherits, transferFrom, approve and setApprovalForAll
\* are modelled; safeTransferFrom is transferFrom followed by a check of the
\* receiver, which is not a contract here, and the functions of Ownable
\* write the owner of the contract only, which no function of the registry
\* reads.
Constructed ==
    [nextAgentId |-> 1,
     owners |-> [id \in TokenIds |-> ZeroAddress],
     tokenApprovals |-> [id \in TokenIds |-> ZeroAddress],
     operators |-> [a \in Accounts |-> {}],
     agentURIs |-> [id \in TokenIds |-> ""],
     metadata |-> [id \in TokenIds |-> [key \in MetadataKeys |-> <<>>]]]

\* What a call comes back with: ok is FALSE when it reverted, and the
\* storage is then as it was.
Returned(c, ret) == [ok |-> TRUE, ret |-> ret, state |-> c]
Reverted(c, why) == [ok |-> FALSE, ret |-> why, state |-> c]

\* ERC721.ownerOf: reverts for a token that has no owner.
ownerOf(c, tokenId) ==
    IF c.owners[tokenId] = ZeroAddress
    THEN Reverted(c, "ERC721NonexistentToken")
    ELSE Returned(c, c.owners[tokenId])

\* ERC721._mint.
mint(c, to, tokenId) ==
    IF to = ZeroAddress THEN Reverted(c, "ERC721InvalidReceiver")
    ELSE IF c.owners[tokenId] # ZeroAddress THEN Reverted(c, "ERC721InvalidSender")
    ELSE Returned([c EXCEPT !.owners[tokenId] = to], "")

\* Mutant: the id counter is not advanced.
registerWithURI_SameId(c, sender, agentURI_) ==
    LET agentId == c.nextAgentId
        minted == mint(c, sender, agentId)
    IN  IF ~minted.ok THEN Reverted(c, minted.ret)
        ELSE Returned([minted.state EXCEPT !.agentURIs[agentId] = agentURI_], agentId)

\* register(string), lines 60-66.
registerWithURI(c, sender, agentURI_) ==
    LET agentId == c.nextAgentId
        c1 == [c EXCEPT !.nextAgentId = @ + 1]
        minted == mint(c1, sender, agentId)
    IN  IF ~minted.ok THEN Reverted(c, minted.ret)
        ELSE Returned([minted.state EXCEPT !.agentURIs[agentId] = agentURI_], agentId)

\* register(), lines 69-74.
register(c, sender) ==
    LET agentId == c.nextAgentId
        c1 == [c EXCEPT !.nextAgentId = @ + 1]
        minted == mint(c1, sender, agentId)
    IN  IF ~minted.ok THEN Reverted(c, minted.ret) ELSE Returned(minted.state, agentId)

\* ERC721._isAuthorized: the owner, an operator of the owner, or the account
\* approved for the token.  No owner is address(0) but that of a token that
\* does not exist, which has no approved account either.
IsAuthorized(c, owner, spender, tokenId) ==
    /\ spender # ZeroAddress
    /\ \/ spender = owner
       \/ owner # ZeroAddress /\ spender \in c.operators[owner]
       \/ c.tokenApprovals[tokenId] = spender

\* Mutant: an operator of the owner may write as well.
setAgentURI_Authorized(c, sender, agentId, newURI) ==
    LET owner == ownerOf(c, agentId)
    IN  IF ~owner.ok THEN Reverted(c, owner.ret)
        ELSE IF ~IsAuthorized(c, owner.ret, sender, agentId)
        THEN Reverted(c, "Not agent owner")
        ELSE Returned([c EXCEPT !.agentURIs[agentId] = newURI], "")

\* Lines 81-85.
setAgentURI(c, sender, agentId, newURI) ==
    LET owner == ownerOf(c, agentId)
    IN  IF ~owner.ok THEN Reverted(c, owner.ret)
        ELSE IF owner.ret # sender THEN Reverted(c, "Not agent owner")
        ELSE Returned([c EXCEPT !.agentURIs[agentId] = newURI], "")

\* Lines 88-91.
agentURI(c, agentId) ==
    LET owner == ownerOf(c, agentId)
    IN  IF ~owner.ok THEN Reverted(c, owner.ret) ELSE Returned(c, c.agentURIs[agentId])

\* Lines 94-99.
tokenURI(c, tokenId) ==
    LET owner == ownerOf(c, tokenId)
    IN  IF ~owner.ok THEN Reverted(c, owner.ret) ELSE Returned(c, c.agentURIs[tokenId])

\* Lines 105-113.
setMetadata(c, sender, agentId, key, value) ==
    LET owner == ownerOf(c, agentId)
    IN  IF ~owner.ok THEN Reverted(c, owner.ret)
        ELSE IF owner.ret # sender THEN Reverted(c, "Not agent owner")
        ELSE Returned([c EXCEPT !.metadata[agentId][key] = value], "")

\* Lines 115-120.
getMetadata(c, agentId, key) == Returned(c, c.metadata[agentId][key])

\* Lines 126-128.
totalAgents(c) == Returned(c, c.nextAgentId - 1)

\* Mutant: a transfer to address(0) is let through.
transferFrom_Burns(c, sender, from, to, tokenId) ==
    LET owner == c.owners[tokenId]
    IN  IF owner = ZeroAddress THEN Reverted(c, "ERC721NonexistentToken")
        ELSE IF ~IsAuthorized(c, owner, sender, tokenId)
        THEN Reverted(c, "ERC721InsufficientApproval")
        ELSE IF owner # from THEN Reverted(c, "ERC721IncorrectOwner")
        ELSE Returned([c EXCEPT !.owners[tokenId] = to,
                                !.tokenApprovals[tokenId] = ZeroAddress], "")

\* ERC721.transferFrom, which the contract inherits unchanged: the sender is
\* the owner, an operator of the owner or the account approved for the
\* token, and the approval of the token is cleared with the transfer.
transferFrom(c, sender, from, to, tokenId) ==
    LET owner == c.owners[tokenId]
    IN  IF to = ZeroAddress THEN Reverted(c, "ERC721InvalidReceiver")
        ELSE IF owner = ZeroAddress THEN Reverted(c, "ERC721NonexistentToken")
        ELSE IF ~IsAuthorized(c, owner, sender, tokenId)
        THEN Reverted(c, "ERC721InsufficientApproval")
        ELSE IF owner # from THEN Reverted(c, "ERC721IncorrectOwner")
        ELSE Returned([c EXCEPT !.owners[tokenId] = to,
                                !.tokenApprovals[tokenId] = ZeroAddress], "")

\* ERC721.approve, inherited unchanged: the owner of the token or an
\* operator of the owner names the account approved for it (address(0):
\* none).
approve(c, sender, to, tokenId) ==
    LET owner == c.owners[tokenId]
    IN  IF owner = ZeroAddress THEN Reverted(c, "ERC721NonexistentToken")
        ELSE IF owner # sender /\ sender \notin c.operators[owner]
        THEN Reverted(c, "ERC721InvalidApprover")
        ELSE Returned([c EXCEPT !.tokenApprovals[tokenId] = to], "")

\* ERC721.setApprovalForAll, inherited unchanged.
setApprovalForAll(c, sender, operator, approved) ==
    IF operator = ZeroAddress THEN Reverted(c, "ERC721InvalidOperator")
    ELSE Returned([c EXCEPT !.operators[sender] =
                      IF approved THEN @ \cup {operator} ELSE @ \ {operator}], "")

\* ------------------------------------------------- pages/api/search.ts
\* The state of one run of handler:
\*   pc           "idle", the await it is suspended at, "responded" or
\*                "threw"; the awaits are those of the handler with, inside
\*                the call awaited, the fetch ("awaitVerify", "awaitSearch",
\*                "awaitSettle") and the body of its response
\*                ("awaitVerifyBody", "awaitSearchBody", "awaitSettleBody")
\*   req          the request
\*   q, paymentSig, verification, results, search_mode, settlement
\*                the handler's local variables
\*   verifyReply, settleReply
\*                what the fetches to the facilitator came back with
\*                (the headers alone while the body is awaited)
\*   res          the response object
\*   log          what the run has done so far, in order
\*   calls        the requests it has sent to the facilitator, in order
\*   args         the arguments of its calls of verifyPayment, executeSearch
\*                and settlePayment, in order
\* Beside them:
\*   unpaid       how many earlier requests ended without a receipt (no
\*                token, a rejected token, a failed settlement); the code
\*                keeps no such count, it is recorded to state that nothing
\*                depends on it
\*   lib          for each caller, the direct call of a function of the
\*                library it has made (verifyPayment, settlePayment,
\*                buildPaymentRequired, extractPaymentSignature,
\*                executeSearch): the await the call is suspended at or
\*                that it has returned, its input and its outcome
\*   chain        the AgentIdentityRegistry contract: its storage, the last
\*                transaction sent to it with the storage it found, and the
\*                ids and URIs its calls have returned and written so far
VARIABLES h, env, unpaid, lib, chain

vars == <<h, env, unpaid, lib, chain>>

Idle ==
    [pc |-> "idle", req |-> NoRequest, q |-> <<>>, paymentSig |-> Null,
     verification |-> NoVerification, results |-> <<>>, search_mode |-> "",
     settlement |-> NoSettlement, verifyReply |-> NoReply, settleReply |-> NoReply,
     res |-> NewResponse, log |-> <<>>, calls |-> <<>>, args |-> <<>>]

Logged(x, events) == [x EXCEPT !.log = @ \o events]

\* The handler calls fn: the call is logged with the arguments it passes, a
\* token and a resource path to verifyPayment and settlePayment, a query to
\* executeSearch.
Called(x, fn, paymentSignature, resource, query) ==
    [x EXCEPT !.log = Append(@, fn \o ":call"),
              !.args = Append(@, [fn |-> fn, paymentSignature |-> paymentSignature,
                                  resource |-> resource, query |-> query])]

\* return res.status(code).json(...)
Responded(x, res) ==
    [x EXCEPT !.pc = "responded", !.res = res,
              !.log = Append(@, IF res.status = 200 THEN "respond:200"
                                ELSE IF res.status = 402 THEN "respond:402"
                                ELSE IF res.status = 400 THEN "respond:400"
                                ELSE "respond:405")]

\* An exception leaves the handler: nothing is sent by it.
Threw(x) == [x EXCEPT !.pc = "threw", !.log = Append(@, "throw")]

Pricing == [currency |-> "USDC", amount |-> "0.002", unit |-> "per_request"]

\* Mutant: the query sits in a variable of the module, which the request in
\* slot 1 holds while it is being handled.
ValidatedQuery_LastSeen(req) ==
    IF h[1].pc # "idle" THEN h[1].q
    ELSE IF req.q.type = "string" THEN Trim(req.q.val) ELSE <<>>

\* Mutant: q is not trimmed.
ValidatedQuery_NoTrim(req) == IF req.q.type = "string" THEN req.q.val ELSE <<>>

\* Line 37: the trimmed q, empty when q is not a string.
ValidatedQuery(req) == IF req.q.type = "string" THEN Trim(req.q.val) ELSE <<>>

\* Line 32.
MethodAllowed(req) == req.method = "GET"

\* Line 45: no token, so the challenge is sent.
PaymentMissing(paymentSig) == ~Truthy(paymentSig)

\* Mutant: after MaxHistory unpaid requests no payment is accepted any more.
PaymentAccepted_Lockout(verification) == verification.valid /\ unpaid < MaxHistory

\* Mutant: the outcome of the verification is not looked at.
PaymentAccepted_Always(verification) == TRUE

\* Line 52: whether the handler goes on to execute.
PaymentAccepted(verification) == verification.valid

\* Mutant: the receipt header is never set.
ReceiptDue_Never(settlement) == FALSE

\* Mutant: the receipt header is set whatever the outcome.
ReceiptDue_Always(settlement) == TRUE

\* Line 64: whether the PAYMENT-RESPONSE header is set.
ReceiptDue(settlement) == Truthy(settlement.success)

\* Mutant: the payment field follows the success flag.
PaymentShown_BySuccess(settlement) == Truthy(settlement.success)

\* Line 84: whether the body gets its payment field.
PaymentShown(settlement) == Truthy(settlement.transaction)

\* Lines 64-87, once settlePayment has returned.
Respond(x, settlement) ==
    IF settlement.t = "null"
    THEN Threw([x EXCEPT !.settlement = settlement])
    ELSE LET withHeader ==
                 IF ReceiptDue(settlement)
                 THEN [x.res EXCEPT !.headers = @ \cup {"PAYMENT-RESPONSE"},
                                    !.hPaymentResponse = encodePaymentResponse(settlement)]
                 ELSE x.res
             hasPayment == PaymentShown(settlement)
             body == [NoBody EXCEPT
                         !.kind = "results",
                         !.query = x.q,
                         !.results = x.results,
                         !.pricing = Pricing,
                         !.provider = "micropaid-search-api",
                         !.search_mode = x.search_mode,
                         !.agent_identity = getAgentIdentity,
                         !.hasPayment = hasPayment,
                         !.payment = IF hasPayment
                                     THEN [transaction |-> settlement.transaction,
                                           payer |-> settlement.payer]
                                     ELSE NoPayment]
         IN  Responded([x EXCEPT !.settlement = settlement],
                       [withHeader EXCEPT !.status = 200, !.body = body])

\* Mutant: a token that another request in progress has sent to settle is
\* not settled a second time.
StartSettle_Deduplicated(x) ==
    LET called == Called(x, "settlePayment", x.paymentSig, RESOURCE, <<>>)
        call == FacilitatorCall("/settle", x.paymentSig, RESOURCE)
    IN  IF \E t \in Slots : \E i \in DOMAIN h[t].calls : h[t].calls[i] = call
        THEN Respond(x, SettlementFailed(NoErr))
        ELSE IF ~TokenDecodes(x.paymentSig)
        THEN [called EXCEPT !.pc = "awaitSettle"]
        ELSE [called EXCEPT
                !.pc = "awaitSettle",
                !.log = Append(@, "fetch:/settle"),
                !.calls = Append(@, call)]

\* Mutant: the token that is settled is read from the X-PAYMENT header when
\* the request has one.
StartSettle_LegacyToken(x) ==
    LET token == IF x.req.v1.type = "string" /\ x.req.v1.val # ""
                 THEN x.req.v1.val ELSE x.paymentSig
        called == Called(x, "settlePayment", token, RESOURCE, <<>>)
    IN  IF ~TokenDecodes(token)
        THEN [called EXCEPT !.pc = "awaitSettle"]
        ELSE [called EXCEPT
                !.pc = "awaitSettle",
                !.log = Append(@, "fetch:/settle"),
                !.calls = Append(@, FacilitatorCall("/settle", token, RESOURCE))]

\* Mutant: settlePayment is called and not awaited.
StartSettle_NoAwait(x) ==
    Respond([Logged(x, <<"settlePayment:call", "fetch:/settle">>) EXCEPT
                !.calls = Append(@, FacilitatorCall("/settle", x.paymentSig, RESOURCE))],
            SettlementFailed(NoErr))

\* Line 62: settlePayment is called and the handler suspends at its await;
\* the call has issued its fetch when the token has decoded, and has
\* returned without one otherwise.
StartSettle(x) ==
    LET called == Called(x, "settlePayment", x.paymentSig, RESOURCE, <<>>)
    IN  IF ~TokenDecodes(x.paymentSig)
        THEN [called EXCEPT !.pc = "awaitSettle"]
        ELSE [called EXCEPT
                !.pc = "awaitSettle",
                !.log = Append(@, "fetch:/settle"),
                !.calls = Append(@, FacilitatorCall("/settle", x.paymentSig, RESOURCE))]

\* Mutant: a fallback result is returned without settling.
Executed_FallbackUnsettled(x, out) ==
    LET y == [Logged(x, <<"executeSearch:return">>) EXCEPT
                 !.results = out.results, !.search_mode = out.search_mode]
    IN  IF out.search_mode = "fallback_stub"
        THEN Respond(y, SettlementFailed(NoErr))
        ELSE StartSettle(y)

\* Line 59, once executeSearch has returned.
Executed(x, out) ==
    StartSettle([Logged(x, <<"executeSearch:return">>) EXCEPT
                    !.results = out.results, !.search_mode = out.search_mode])

\* Line 59: executeSearch is called and the handler suspends at its await;
\* the call has issued its fetch in live mode, and has returned without one
\* in stub mode.
StartSearch(x, setting) ==
    LET called == Called(x, "executeSearch", "", "", x.q)
    IN  IF Provider(setting) = "stub"
        THEN [called EXCEPT !.pc = "awaitSearch"]
        ELSE [called EXCEPT !.pc = "awaitSearch", !.log = Append(@, "fetch:duckduckgo")]

\* Mutant: the challenge for a rejected token names the cause.
Verified_LeaksReason(x, verification, setting) ==
    LET returned == [Logged(x, <<"verifyPayment:return">>) EXCEPT
                        !.verification = verification]
    IN  IF ~PaymentAccepted(verification)
        THEN Responded(returned, [send402(returned.res, RESOURCE) EXCEPT
                                     !.body.error = verification.error.code])
        ELSE StartSearch(returned, setting)

\* Lines 52-59, once verifyPayment has returned.
Verified(x, verification, setting) ==
    LET returned == [Logged(x, <<"verifyPayment:return">>) EXCEPT
                        !.verification = verification]
    IN  IF ~PaymentAccepted(verification)
        THEN Responded(returned, send402(returned.res, RESOURCE))
        ELSE StartSearch(returned, setting)

\* Line 51: verifyPayment is called and the handler suspends at its await;
\* the call has issued its fetch when the token has decoded, and has
\* returned without one otherwise.
StartVerify(x, setting) ==
    LET called == Called(x, "verifyPayment", x.paymentSig, RESOURCE, <<>>)
    IN  IF ~TokenDecodes(x.paymentSig)
        THEN [called EXCEPT !.pc = "awaitVerify"]
        ELSE [called EXCEPT
                !.pc = "awaitVerify",
                !.log = Append(@, "fetch:/verify"),
                !.calls = Append(@, FacilitatorCall("/verify", x.paymentSig, RESOURCE))]

\* Mutant: the query is validated before the method is looked at.
HandlerStart_QueryFirst(req, setting) ==
    LET x0 == [Idle EXCEPT !.req = req]
        q == ValidatedQuery(req)
    IN  IF q = <<>>
        THEN Responded(x0, SendError(x0.res, 400, "Missing required query parameter: q"))
        ELSE IF ~MethodAllowed(req)
        THEN Responded(x0, SendError(x0.res, 405, "Method not allowed"))
        ELSE LET paymentSig == extractPaymentSignature(req)
                 x1 == [x0 EXCEPT !.q = q, !.paymentSig = paymentSig]
             IN  IF PaymentMissing(paymentSig)
                 THEN Responded(x1, send402(x1.res, RESOURCE))
                 ELSE StartVerify(x1, setting)

\* Lines 32-51: the handler from its entry to its first await or response.
HandlerStart(req, setting) ==
    LET x0 == [Idle EXCEPT !.req = req]
    IN  IF ~MethodAllowed(req)
        THEN Responded(x0, SendError(x0.res, 405, "Method not allowed"))
        ELSE LET q == ValidatedQuery(req)
             IN  IF q = <<>>
                 THEN Responded(x0, SendError(x0.res, 400,
                                              "Missing required query parameter: q"))
                 ELSE LET paymentSig == extractPaymentSignature(req)
                          x1 == [x0 EXCEPT !.q = q, !.paymentSig = paymentSig]
                      IN  IF PaymentMissing(paymentSig)
                          THEN Responded(x1, send402(x1.res, RESOURCE))
                          ELSE StartVerify(x1, setting)

\* ------------------------------------------------------------------ actions
\* The callers of the library: caller 1 makes every call with every input,
\* the other makes calls beside it.
Callers == {1, 2}

\* A direct call of a facilitator-client function: the await it is suspended
\* at ("awaitFetch", "awaitBody") or "returned", the token, whether the call
\* got as far as its fetch, the reply, and the outcome.
LibCall(pc, op, token, fetched, reply, verification, settlement) ==
    [pc |-> pc, op |-> op, token |-> token, fetched |-> fetched, reply |-> reply,
     verification |-> verification, settlement |-> settlement]
LibIdle == LibCall("idle", "none", Null, FALSE, NoReply, NoVerification, NoSettlement)

\* The tokens the functions are called with.
LibTokens == {TokEmptyObj, TokPayload, TokNotJson, TokNotBase64, ""}

\* A transaction sent to the contract: the function, msg.sender, the agent
\* id and the other argument it was called with, whether it went through,
\* and what it returned.
Tx(fn, sender, agentId, arg, ok, ret) ==
    [fn |-> fn, sender |-> sender, agentId |-> agentId, arg |-> arg, ok |-> ok, ret |-> ret]
NoTx == Tx("none", ZeroAddress, 0, "", FALSE, "")

\* The contract as its constructor leaves it (lines 50-53), nothing sent to
\* it yet.
Deployed ==
    [c |-> Constructed, before |-> Constructed, last |-> NoTx, returned |-> <<>>,
     written |-> [id \in TokenIds |-> ""]]

Init ==
    /\ h = [s \in Slots |-> Idle]
    /\ env \in [SEARCH_PROVIDER : ProviderSettings]
    /\ unpaid = 0
    /\ lib = [k \in Callers |-> LibIdle]
    /\ chain = Deployed

\* A request of reqs arrives and the handler runs to its first await or
\* response.
ReceiveFrom(s, reqs) ==
    /\ h[s].pc = "idle"
    /\ \E req \in reqs :
          h' = [h EXCEPT ![s] = HandlerStart(req, env.SEARCH_PROVIDER)]
    /\ UNCHANGED env

\* What a call that is awaited comes back with: a reply of replies to the
\* fetch it issued, or no reply when it issued none.
VerifyAnswers(x, replies) == IF TokenDecodes(x.paymentSig) THEN replies ELSE {NoReply}
SearchAnswers(setting, replies) ==
    IF Provider(setting) = "stub" THEN {NoDdgReply} ELSE replies
SettleAnswers(x, replies) == IF TokenDecodes(x.paymentSig) THEN replies ELSE {NoReply}

\* Mutant: a verify fetch that failed in transit is issued a second time.
VerifyResolveWith_Retry(s, replies) ==
    /\ h[s].pc = "awaitVerify"
    /\ \E reply \in FetchSettles(VerifyAnswers(h[s], replies)) :
          IF reply.kind \in {"neterr", "timeout"} /\ h[s].verifyReply = NoReply
          THEN h' = [h EXCEPT ![s] =
                        [h[s] EXCEPT
                            !.verifyReply = reply,
                            !.log = Append(@, "fetch:/verify"),
                            !.calls = Append(@, FacilitatorCall("/verify", h[s].paymentSig,
                                                                RESOURCE))]]
          ELSE IF reply.kind = "headers"
          THEN h' = [h EXCEPT ![s] = [h[s] EXCEPT !.pc = "awaitVerifyBody",
                                                  !.verifyReply = reply]]
          ELSE h' = [h EXCEPT ![s] = Verified([h[s] EXCEPT !.verifyReply = reply],
                                              verifyPayment(h[s].paymentSig, RESOURCE, reply),
                                              env.SEARCH_PROVIDER)]
    /\ UNCHANGED env

\* await fetch(<facilitator>/verify) settles (part_000:146).  When it resolves
\* the response is there with its status and verifyPayment waits a second
\* time, for the body; when it rejects, or when the call had returned without
\* a fetch, verifyPayment has returned and the handler resumes from its await
\* (lines 51-59).
VerifyResolveWith(s, replies) ==
    /\ h[s].pc = "awaitVerify"
    /\ \E reply \in FetchSettles(VerifyAnswers(h[s], replies)) :
          IF reply.kind = "headers"
          THEN h' = [h EXCEPT ![s] = [h[s] EXCEPT !.pc = "awaitVerifyBody",
                                                  !.verifyReply = reply]]
          ELSE h' = [h EXCEPT ![s] = Verified([h[s] EXCEPT !.verifyReply = reply],
                                              verifyPayment(h[s].paymentSig, RESOURCE, reply),
                                              env.SEARCH_PROVIDER)]
    /\ UNCHANGED env

\* await response.json() (part_000:164) or await response.text() (157)
\* settles: verifyPayment returns and the handler resumes from its await.
VerifyBodyWith(s, replies) ==
    /\ h[s].pc = "awaitVerifyBody"
    /\ \E reply \in BodiesOf(replies, h[s].verifyReply.status) :
          h' = [h EXCEPT ![s] = Verified([h[s] EXCEPT !.verifyReply = reply],
                                         verifyPayment(h[s].paymentSig, RESOURCE, reply),
                                         env.SEARCH_PROVIDER)]
    /\ UNCHANGED env

\* await fetch(url) of the DuckDuckGo page settles (part_001:89).  With a
\* success status searchDuckDuckGo waits a second time, for the body;
\* otherwise, or when the call had returned without a fetch, executeSearch
\* has returned and the handler resumes from its await (lines 59-62).
SearchResolveWith(s, replies) ==
    /\ h[s].pc = "awaitSearch"
    /\ \/ \E reply \in DdgEnds(SearchAnswers(env.SEARCH_PROVIDER, replies)) :
             h' = [h EXCEPT ![s] =
                      Executed(h[s], executeSearch(env.SEARCH_PROVIDER, h[s].q, reply))]
       \/ /\ DdgBodies(SearchAnswers(env.SEARCH_PROVIDER, replies)) # {}
          /\ h' = [h EXCEPT ![s] = [h[s] EXCEPT !.pc = "awaitSearchBody"]]
    /\ UNCHANGED env

\* await response.text() (part_001:103) settles: searchDuckDuckGo parses the
\* page or throws, executeSearch returns and the handler resumes.
SearchBodyWith(s, replies) ==
    /\ h[s].pc = "awaitSearchBody"
    /\ \E reply \in DdgBodies(replies) :
          h' = [h EXCEPT ![s] = Executed(h[s],
                                         executeSearch(env.SEARCH_PROVIDER, h[s].q, reply))]
    /\ UNCHANGED env

\* await fetch(<facilitator>/settle) settles (part_000:200).  When it resolves
\* settlePayment waits a second time, for the body; when it rejects, or when
\* the call had returned without a fetch, settlePayment has returned and the
\* handler resumes from its await (lines 62-87).
SettleResolveWith(s, replies) ==
    /\ h[s].pc = "awaitSettle"
    /\ \E reply \in FetchSettles(SettleAnswers(h[s], replies)) :
          IF reply.kind = "headers"
          THEN h' = [h EXCEPT ![s] = [h[s] EXCEPT !.pc = "awaitSettleBody",
                                                  !.settleReply = reply]]
          ELSE h' = [h EXCEPT ![s] = Respond(Logged([h[s] EXCEPT !.settleReply = reply],
                                                    <<"settlePayment:return">>),
                                             settlePayment(h[s].paymentSig, RESOURCE, reply))]
    /\ UNCHANGED env

\* await response.json() (part_000:218) or await response.text() (211)
\* settles: settlePayment returns and the handler resumes from its await.
SettleBodyWith(s, replies) ==
    /\ h[s].pc = "awaitSettleBody"
    /\ \E reply \in BodiesOf(replies, h[s].settleReply.status) :
          h' = [h EXCEPT ![s] = Respond(Logged([h[s] EXCEPT !.settleReply = reply],
                                               <<"settlePayment:return">>),
                                        settlePayment(h[s].paymentSig, RESOURCE, reply))]
    /\ UNCHANGED env

\* The handler's promise settles; the slot is free for the next request.
Finished(s) ==
    /\ h[s].pc \in {"responded", "threw"}
    /\ h' = [h EXCEPT ![s] = Idle]
    /\ UNCHANGED env

Receive(s) == ReceiveFrom(s, Requests) /\ UNCHANGED <<unpaid, lib, chain>>
VerifyResolve(s) == VerifyResolveWith(s, VerifyReplies) /\ UNCHANGED <<unpaid, lib, chain>>
SearchResolve(s) == SearchResolveWith(s, HandlerDdgReplies) /\ UNCHANGED <<unpaid, lib, chain>>
SettleResolve(s) == SettleResolveWith(s, SettleReplies) /\ UNCHANGED <<unpaid, lib, chain>>
VerifyBody(s) == VerifyBodyWith(s, VerifyReplies) /\ UNCHANGED <<unpaid, lib, chain>>
SearchBody(s) == SearchBodyWith(s, HandlerDdgReplies) /\ UNCHANGED <<unpaid, lib, chain>>
SettleBody(s) == SettleBodyWith(s, SettleReplies) /\ UNCHANGED <<unpaid, lib, chain>>
Finish(s) == Finished(s) /\ UNCHANGED <<unpaid, lib, chain>>

\* One request at a time, each handled to its end before the next.
Next ==
    \/ Receive(1)
    \/ VerifyResolve(1)
    \/ VerifyBody(1)
    \/ SearchResolve(1)
    \/ SearchBody(1)
    \/ SettleResolve(1)
    \/ SettleBody(1)
    \/ Finish(1)

Spec == Init /\ [][Next]_vars

\* ----------------------------------------- the facilitator client by itself
\* The inputs of a caller: caller 1 has them all, the other a token that
\* decodes, a query and, to each fetch, a reply that comes with a body.
\* The answers to a direct call of verifyPayment: those the handler meets,
\* and a body whose validity flag is a number.
LibVerifyReplies == VerifyReplies \cup {Reply("http", 200, TRUE, TxtValidOne)}

TokensOf(k) == IF k = 1 THEN LibTokens ELSE {TokEmptyObj}
VerifyRepliesOf(k) == IF k = 1 THEN LibVerifyReplies ELSE {Reply("http", 200, TRUE, TxtValid)}
SettleRepliesOf(k) == IF k = 1 THEN SettleReplies ELSE {Reply("http", 200, TRUE, TxtSettled)}

\* verifyPayment(token, RESOURCE) is called by caller k: it returns from its
\* first catch when the token does not decode (part_000:136-143), and
\* issues its fetch and waits for it otherwise (line 146).
LibVerify(k) ==
    /\ lib[k] = LibIdle
    /\ \E token \in TokensOf(k) :
          lib' = [lib EXCEPT ![k] =
                     IF TokenDecodes(token)
                     THEN LibCall("awaitFetch", "verify", token, TRUE, NoReply,
                                  NoVerification, NoSettlement)
                     ELSE LibCall("returned", "verify", token, FALSE, NoReply,
                                  verifyPayment(token, RESOURCE, NoReply), NoSettlement)]
    /\ UNCHANGED <<h, env, unpaid, chain>>

\* The call of verifyPayment returns, with the reply its fetch got.
VerifyReturned(call, reply) ==
    [call EXCEPT !.pc = "returned", !.reply = reply,
                 !.verification = verifyPayment(call.token, RESOURCE, reply)]

\* Its await fetch settles (line 146): rejected, the call returns from its
\* catch; resolved, the call waits for the body.
LibVerifyFetched(k) ==
    /\ lib[k].pc = "awaitFetch"
    /\ lib[k].op = "verify"
    /\ \E reply \in FetchSettles(VerifyRepliesOf(k)) :
          lib' = [lib EXCEPT ![k] =
                     IF reply.kind = "headers"
                     THEN [@ EXCEPT !.pc = "awaitBody", !.reply = reply]
                     ELSE VerifyReturned(@, reply)]
    /\ UNCHANGED <<h, env, unpaid, chain>>

\* Its await response.json() (line 164) or response.text() (line 157)
\* settles and the call returns.
LibVerifyBody(k) ==
    /\ lib[k].pc = "awaitBody"
    /\ lib[k].op = "verify"
    /\ \E reply \in BodiesOf(VerifyRepliesOf(k), lib[k].reply.status) :
          lib' = [lib EXCEPT ![k] = VerifyReturned(@, reply)]
    /\ UNCHANGED <<h, env, unpaid, chain>>

\* settlePayment(token, RESOURCE) is called by caller k (part_000:190-200).
LibSettle(k) ==
    /\ lib[k] = LibIdle
    /\ \E token \in TokensOf(k) :
          lib' = [lib EXCEPT ![k] =
                     IF TokenDecodes(token)
                     THEN LibCall("awaitFetch", "settle", token, TRUE, NoReply,
                                  NoVerification, NoSettlement)
                     ELSE LibCall("returned", "settle", token, FALSE, NoReply,
                                  NoVerification, settlePayment(token, RESOURCE, NoReply))]
    /\ UNCHANGED <<h, env, unpaid, chain>>

\* The call of settlePayment returns, with the reply its fetch got.
SettleReturned(call, reply) ==
    [call EXCEPT !.pc = "returned", !.reply = reply,
                 !.settlement = settlePayment(call.token, RESOURCE, reply)]

\* Its await fetch settles (line 200).
LibSettleFetched(k) ==
    /\ lib[k].pc = "awaitFetch"
    /\ lib[k].op = "settle"
    /\ \E reply \in FetchSettles(SettleRepliesOf(k)) :
          lib' = [lib EXCEPT ![k] =
                     IF reply.kind = "headers"
                     THEN [@ EXCEPT !.pc = "awaitBody", !.reply = reply]
                     ELSE SettleReturned(@, reply)]
    /\ UNCHANGED <<h, env, unpaid, chain>>

\* Its await response.json() (line 218) or response.text() (line 211)
\* settles and the call returns.
LibSettleBody(k) ==
    /\ lib[k].pc = "awaitBody"
    /\ lib[k].op = "settle"
    /\ \E reply \in BodiesOf(SettleRepliesOf(k), lib[k].reply.status) :
          lib' = [lib EXCEPT ![k] = SettleReturned(@, reply)]
    /\ UNCHANGED <<h, env, unpaid, chain>>

\* A direct call of one of the other functions of the library: what it was
\* called with and what it returned.
LibPure(pc, op, input, output) ==
    [pc |-> pc, op |-> op, token |-> Null, fetched |-> FALSE, reply |-> NoReply,
     verification |-> NoVerification, settlement |-> NoSettlement,
     input |-> input, output |-> output]

\* The resource paths buildPaymentRequired is called with.
BuildPaths == ResourcePaths \cup {"/", "/api/other"}

\* buildPaymentRequired(resource) is called; it does not wait.
LibBuild(k) ==
    /\ lib[k] = LibIdle
    /\ \E resource \in BuildPaths :
          lib' = [lib EXCEPT ![k] =
                     LibPure("returned", "build", resource,
                             <<buildPaymentRequired(resource)>>)]
    /\ UNCHANGED <<h, env, unpaid, chain>>

\* It is called a second time for the same path.
LibBuildAgain(k) ==
    /\ lib[k].pc = "returned"
    /\ lib[k].op = "build"
    /\ Len(lib[k].output) = 1
    /\ lib' = [lib EXCEPT ![k].output = Append(@, buildPaymentRequired(lib[k].input))]
    /\ UNCHANGED <<h, env, unpaid, chain>>

\* extractPaymentSignature(req) is called; it does not wait.
LibExtract(k) ==
    /\ lib[k] = LibIdle
    /\ \E req \in Requests :
          lib' = [lib EXCEPT ![k] =
                     LibPure("returned", "extract", req, extractPaymentSignature(req))]
    /\ UNCHANGED <<h, env, unpaid, chain>>

\* The queries executeSearch is called with directly: what the handler
\* passes, a trimmed string that is not empty, of one or two characters (the
\* executor copies the query into the titles and reads nothing of it).
SearchQueries == {q \in QStrings : q # <<>> /\ Trim(q) = q /\ Len(q) <= 2}

QueriesOf(k) == IF k = 1 THEN SearchQueries ELSE {<<"b">>}
DdgRepliesOf(k) == IF k = 1 THEN DdgReplies ELSE {DdgReply("http", 200, TRUE, <<"ok">>)}

\* The value of a call of executeSearch that has not returned yet.
NoSearchResponse == SearchResponse(<<>>, "")

\* executeSearch(query) is called: in stub mode it returns (part_001:144-146),
\* otherwise it calls searchDuckDuckGo, which issues its fetch and waits for
\* it (line 89).
LibSearch(k) ==
    /\ lib[k] = LibIdle
    /\ \E query \in QueriesOf(k) :
          LET input == [setting |-> env.SEARCH_PROVIDER, query |-> query,
                        reply |-> NoDdgReply]
          IN  lib' = [lib EXCEPT ![k] =
                         IF Provider(env.SEARCH_PROVIDER) = "stub"
                         THEN LibPure("returned", "search", input,
                                      executeSearch(env.SEARCH_PROVIDER, query, NoDdgReply))
                         ELSE LibPure("awaitFetch", "search", input, NoSearchResponse)]
    /\ UNCHANGED <<h, env, unpaid, chain>>

\* The call of executeSearch returns, with the reply its fetch got.
SearchReturned(call, reply) ==
    [call EXCEPT !.pc = "returned", !.input.reply = reply,
                 !.output = executeSearch(call.input.setting, call.input.query, reply)]

\* Its await fetch settles (line 89): rejected or with a status that is not
\* a success, searchDuckDuckGo throws and executeSearch returns from its
\* catch; otherwise searchDuckDuckGo waits for the body.
LibSearchFetched(k) ==
    /\ lib[k].pc = "awaitFetch"
    /\ lib[k].op = "search"
    /\ \/ \E reply \in DdgEnds(DdgRepliesOf(k)) :
             lib' = [lib EXCEPT ![k] = SearchReturned(@, reply)]
       \/ /\ DdgBodies(DdgRepliesOf(k)) # {}
          /\ lib' = [lib EXCEPT ![k].pc = "awaitBody"]
    /\ UNCHANGED <<h, env, unpaid, chain>>

\* Its await response.text() settles (line 103) and the call returns.
LibSearchBody(k) ==
    /\ lib[k].pc = "awaitBody"
    /\ lib[k].op = "search"
    /\ \E reply \in DdgBodies(DdgRepliesOf(k)) :
          lib' = [lib EXCEPT ![k] = SearchReturned(@, reply)]
    /\ UNCHANGED <<h, env, unpaid, chain>>

\* The caller has got the value of its call.
LibReturn(k) ==
    /\ lib[k].pc = "returned"
    /\ lib' = [lib EXCEPT ![k] = LibIdle]
    /\ UNCHANGED <<h, env, unpaid, chain>>

\* Calls of the library, a call being made while another waits; the calls
\* that do not wait are caller 1's.
NextLib ==
    \/ \E k \in Callers :
          \/ LibVerify(k)
          \/ LibVerifyFetched(k)
          \/ LibVerifyBody(k)
          \/ LibSettle(k)
          \/ LibSettleFetched(k)
          \/ LibSettleBody(k)
          \/ LibSearch(k)
          \/ LibSearchFetched(k)
          \/ LibSearchBody(k)
          \/ LibReturn(k)
    \/ LibBuild(1)
    \/ LibBuildAgain(1)
    \/ LibExtract(1)

SpecLib == Init /\ [][NextLib]_vars

\* ------------------------------------------------- the server under load
\* The requests, facilitator replies and DuckDuckGo replies that are enough
\* to take every path of the handler, for runs of several requests.
ServerRequests ==
    {r \in Requests :
        /\ r.method = "GET"
        /\ \/ r.q = [type |-> "string", val |-> <<"b">>]
              /\ r.v1 = HdrAbsent
              /\ r.sig \in {HdrAbsent, Hdr("string", TokEmptyObj)}
           \/ r.q = [type |-> "string", val |-> <<"b", "b">>]
              /\ r.sig = HdrAbsent
              /\ r.v1 \in {Hdr("string", TokPayload), Hdr("string", TokNotBase64)}}

ServerVerifyReplies ==
    {Reply("http", 200, TRUE, TxtValid), Reply("http", 200, TRUE, TxtExpired)}

ServerSettleReplies ==
    {Reply("http", 200, TRUE, TxtSettled), Reply("http", 200, TRUE, TxtNull), ReplyTimeout}

ServerDdgReplies ==
    {DdgReply("neterr", 0, FALSE, <<>>),
     DdgReply("http", 200, TRUE, [i \in 1 .. 1 |-> "ok"])}

ServerReceive(s) == ReceiveFrom(s, ServerRequests) /\ UNCHANGED <<unpaid, lib, chain>>
ServerVerifyResolve(s) ==
    VerifyResolveWith(s, ServerVerifyReplies) /\ UNCHANGED <<unpaid, lib, chain>>
ServerSearchResolve(s) ==
    SearchResolveWith(s, ServerDdgReplies) /\ UNCHANGED <<unpaid, lib, chain>>
ServerSettleResolve(s) ==
    SettleResolveWith(s, ServerSettleReplies) /\ UNCHANGED <<unpaid, lib, chain>>
ServerVerifyBody(s) ==
    VerifyBodyWith(s, ServerVerifyReplies) /\ UNCHANGED <<unpaid, lib, chain>>
ServerSearchBody(s) ==
    SearchBodyWith(s, ServerDdgReplies) /\ UNCHANGED <<unpaid, lib, chain>>
ServerSettleBody(s) ==
    SettleBodyWith(s, ServerSettleReplies) /\ UNCHANGED <<unpaid, lib, chain>>

\* Requests are handled as they come, their steps interleaved.
NextServer ==
    \E s \in Slots :
        \/ ServerReceive(s)
        \/ ServerVerifyResolve(s)
        \/ ServerVerifyBody(s)
        \/ ServerSearchResolve(s)
        \/ ServerSearchBody(s)
        \/ ServerSettleResolve(s)
        \/ ServerSettleBody(s)
        \/ Finish(s)

SpecServer == Init /\ [][NextServer]_vars

\* A request ends; one that ended without a receipt (no token, a rejected
\* token, a failed settlement) is counted, up to MaxHistory.
CountedFinish(s) ==
    /\ Finished(s)
    /\ IF h[s].pc = "responded" /\ "PAYMENT-RESPONSE" \in h[s].res.headers
       THEN unpaid' = unpaid
       ELSE unpaid < MaxHistory /\ unpaid' = unpaid + 1
    /\ UNCHANGED <<lib, chain>>

\* One client after the other: request after request, each handled to its
\* end before the next.
NextSeq ==
    \/ ServerReceive(1)
    \/ ServerVerifyResolve(1)
    \/ ServerVerifyBody(1)
    \/ ServerSearchResolve(1)
    \/ ServerSearchBody(1)
    \/ ServerSettleResolve(1)
    \/ ServerSettleBody(1)
    \/ CountedFinish(1)

SpecSeq == Init /\ [][NextSeq]_vars

\* ------------------------------------------------ the contract on chain
\* A transaction is mined: r is what the call came back with.  The ids the
\* register calls return and the URI last written for each id are kept
\* beside the storage.
Mined(fn, sender, agentId, arg, r) ==
    [c |-> r.state,
     before |-> chain.c,
     last |-> Tx(fn, sender, agentId, arg, r.ok, r.ret),
     returned |-> IF r.ok /\ fn \in {"register(string)", "register()"}
                  THEN Append(chain.returned, r.ret)
                  ELSE chain.returned,
     written |-> IF r.ok /\ fn = "register(string)"
                 THEN [chain.written EXCEPT ![r.ret] = arg]
                 ELSE IF r.ok /\ fn = "setAgentURI"
                 THEN [chain.written EXCEPT ![agentId] = arg]
                 ELSE chain.written]

\* register(agentURI_) is called, as contracts/scripts/deploy.ts does first.
RegisterURI ==
    /\ chain.last = NoTx
    /\ chain.c.nextAgentId <= MaxAgents
    /\ \E sender \in Accounts, agentURI_ \in URIs :
          chain' = Mined("register(string)", sender, 0, agentURI_,
                         registerWithURI(chain.c, sender, agentURI_))
    /\ UNCHANGED <<h, env, unpaid, lib>>

\* register() is called.
RegisterBare ==
    /\ chain.last = NoTx
    /\ chain.c.nextAgentId <= MaxAgents
    /\ \E sender \in Accounts :
          chain' = Mined("register()", sender, 0, "", register(chain.c, sender))
    /\ UNCHANGED <<h, env, unpaid, lib>>

SetAgentURI ==
    /\ chain.last = NoTx
    /\ \E sender \in Accounts, agentId \in TokenIds, newURI \in URIs :
          chain' = Mined("setAgentURI", sender, agentId, newURI,
                         setAgentURI(chain.c, sender, agentId, newURI))
    /\ UNCHANGED <<h, env, unpaid, lib>>

SetMetadata ==
    /\ chain.last = NoTx
    /\ \E sender \in Accounts, agentId \in TokenIds, key \in MetadataKeys,
          value \in MetadataValues :
          chain' = Mined("setMetadata", sender, agentId, value,
                         setMetadata(chain.c, sender, agentId, key, value))
    /\ UNCHANGED <<h, env, unpaid, lib>>

\* The token of an agent is transferred, by its owner, by an operator or by
\* the account approved for it.
TransferFrom ==
    /\ chain.last = NoTx
    /\ \E sender \in Accounts, from \in Accounts, to \in Accounts \cup {ZeroAddress},
          tokenId \in TokenIds :
          chain' = Mined("transferFrom", sender, tokenId, to,
                         transferFrom(chain.c, sender, from, to, tokenId))
    /\ UNCHANGED <<h, env, unpaid, lib>>

\* An account other than the owner is approved for the token of an agent,
\* or the approval is taken back (to = address(0)).
Approve ==
    /\ chain.last = NoTx
    /\ \E sender \in Accounts, tokenId \in TokenIds :
          \E to \in (Accounts \ {chain.c.owners[tokenId]}) \cup {ZeroAddress} :
              chain' = Mined("approve", sender, tokenId, to,
                             approve(chain.c, sender, to, tokenId))
    /\ UNCHANGED <<h, env, unpaid, lib>>

\* An account approves or dismisses the other one as its operator.
SetApprovalForAll ==
    /\ chain.last = NoTx
    /\ \E sender \in Accounts, approved \in BOOLEAN :
          \E operator \in Accounts \ {sender} :
              chain' = Mined("setApprovalForAll", sender, 0, operator,
                             setApprovalForAll(chain.c, sender, operator, approved))
    /\ UNCHANGED <<h, env, unpaid, lib>>

\* The outcome of the transaction has been looked at; the next one is sent
\* to the storage as it is now.
TxObserved ==
    /\ chain.last # NoTx
    /\ chain' = [chain EXCEPT !.before = chain.c, !.last = NoTx]
    /\ UNCHANGED <<h, env, unpaid, lib>>

NextChain ==
    \/ RegisterURI
    \/ RegisterBare
    \/ SetAgentURI
    \/ SetMetadata
    \/ TransferFrom
    \/ Approve
    \/ SetApprovalForAll
    \/ TxObserved

\* The contract does not read the configuration of the server.
InitChain == Init /\ env.SEARCH_PROVIDER = Undef

SpecChain == InitChain /\ [][NextChain]_vars

\* ------------------------------------------------------------- properties
\* How often an event occurs in a log, and where it first occurs (0: never).
Count(log, ev) == Cardinality({i \in DOMAIN log : log[i] = ev})
First(log, ev) ==
    IF \E i \in DOMAIN log : log[i] = ev
    THEN CHOOSE i \in DOMAIN log : log[i] = ev /\ \A j \in 1 .. (i - 1) : log[j] # ev
    ELSE 0

Terminal(x) == x.pc \in {"responded", "threw"}
Sent(x, status) == x.pc = "responded" /\ x.res.status = status

\* A call is in flight: it has been made and has not returned.
InFlight(log, name) == Count(log, name \o ":call") > Count(log, name \o ":return")

\* The request, read without the handler's own helpers.
IsGet(req) == req.method = "GET"
BlankQuery(req) ==
    req.q.type # "string" \/ \A i \in DOMAIN req.q.val : req.q.val[i] \in Whitespace
HeaderGiven(hdr) == hdr.type = "string" /\ hdr.val # ""
TokenGiven(req) == HeaderGiven(req.sig) \/ HeaderGiven(req.v1)
\* The token the protocol reads: PAYMENT-SIGNATURE before X-PAYMENT.
TokenOf(req) == IF HeaderGiven(req.sig) THEN req.sig.val ELSE req.v1.val

\* The bodies that are not JSON.
UnparseableTexts == {TxtHtml, TxtNotJson, ""}

\* The challenge for a path, written out field by field.
ExpectedChallenge(path) ==
    [x402Version |-> 2,
     resource |-> [url |-> path,
                   description |-> "Micropaid web search \\u2014 $0.002 per query",
                   mimeType |-> "application/json"],
     accepts |-> << [scheme |-> "exact",
                     network |-> "eip155:84532",
                     amount |-> "2000",
                     asset |-> "0x036CbD53842c5426634e7929541eC2318f3dCF7e",
                     payTo |-> "",
                     maxTimeoutSeconds |-> 60,
                     extra |-> [name |-> "USD Coin", version |-> "2"]] >>]

\* The bytes of its JSON text: the text up to the path, the path, and the
\* text after it.
ChallengeTextHead == "{\"x402Version\":2,\"resource\":{\"url\":\""
ChallengeTextTail ==
    "\",\"description\":\"Micropaid web search \\u2014 $0.002 per query\",\"mimeType\":\"application/json\"},\"accepts\":[{\"scheme\":\"exact\",\"network\":\"eip155:84532\",\"amount\":\"2000\",\"asset\":\"0x036CbD53842c5426634e7929541eC2318f3dCF7e\",\"payTo\":\"\",\"maxTimeoutSeconds\":60,\"extra\":{\"name\":\"USD Coin\",\"version\":\"2\"}}]}"
ExpectedChallengeBytes(path) ==
    Utf8(ChallengeTextHead) \o Utf8(path) \o Utf8(ChallengeTextTail)

IsChallenge(res) ==
    /\ res.status = 402
    /\ res.body.kind = "challenge"
    /\ res.body.challenge = buildPaymentRequired(RESOURCE)

\* C1: the executor runs at most once in a request, only after verifyPayment
\* has returned valid = true for that request, and never on a path that ends
\* in 400, 402 or 405.
C1_ExecuteOnceAfterValid ==
    \A s \in Slots :
        LET x == h[s]
            e == First(x.log, "executeSearch:call")
            v == First(x.log, "verifyPayment:return")
        IN  /\ Count(x.log, "executeSearch:call") <= 1
            /\ e > 0 => (v > 0 /\ v < e /\ x.verification.valid)
            /\ (x.pc = "responded" /\ x.res.status \in {400, 402, 405}) => e = 0

C1_Witness ==
    \E s \in Slots :
        /\ Sent(h[s], 200)
        /\ Count(h[s].log, "executeSearch:call") = 1
        /\ h[s].verification.valid

\* C2: settlePayment is called exactly once in every request whose
\* verification was positive, whatever provenance tag the executor returned,
\* and never in a request that ends in 400 or 402.
C2_SettleOncePerVerified ==
    \A s \in Slots :
        LET x == h[s]
            n == Count(x.log, "settlePayment:call")
        IN  /\ n <= 1
            /\ (Terminal(x) /\ x.verification.valid) =>
                   (n = 1 /\ x.search_mode \in {"duckduckgo", "stub", "fallback_stub"})
            /\ (x.pc = "responded" /\ x.res.status \in {400, 402}) => n = 0

C2_Witness ==
    \E s \in Slots :
        /\ Terminal(h[s])
        /\ h[s].verification.valid
        /\ h[s].search_mode = "fallback_stub"
        /\ Count(h[s].log, "settlePayment:call") = 1

\* C3: within a request verify, execute and settle are strictly sequential:
\* no two of them are in flight together, the executor starts after verify
\* has returned, settle starts after the executor has returned, and the
\* response is sent after settle has returned.
C3_StrictlySequential ==
    \A s \in Slots :
        LET x == h[s]
            L == x.log
            steps == {"verifyPayment", "executeSearch", "settlePayment"}
        IN  /\ Cardinality({n \in steps : InFlight(L, n)}) <= 1
            /\ First(L, "executeSearch:call") > 0 =>
                   /\ First(L, "verifyPayment:return") > 0
                   /\ First(L, "verifyPayment:return") < First(L, "executeSearch:call")
            /\ First(L, "settlePayment:call") > 0 =>
                   /\ First(L, "executeSearch:return") > 0
                   /\ First(L, "executeSearch:return") < First(L, "settlePayment:call")
            /\ x.pc = "responded" =>
                   /\ \A n \in steps : ~InFlight(L, n)
                   /\ x.res.status = 200 =>
                          /\ First(L, "settlePayment:return") > 0
                          /\ First(L, "settlePayment:return") < First(L, "respond:200")

C3_Witness ==
    \E s \in Slots :
        /\ Sent(h[s], 200)
        /\ h[s].log = <<"verifyPayment:call", "fetch:/verify", "verifyPayment:return",
                        "executeSearch:call", "fetch:duckduckgo", "executeSearch:return",
                        "settlePayment:call", "fetch:/settle", "settlePayment:return",
                        "respond:200">>

\* C4: a GET request with a non-blank query and neither payment header is
\* answered 402 with the challenge, without any call to the facilitator and
\* without running the executor.
C4_NoTokenChallenged ==
    \A s \in Slots :
        LET x == h[s]
        IN  (/\ x.pc # "idle"
             /\ IsGet(x.req)
             /\ ~BlankQuery(x.req)
             /\ x.req.sig.type = "undefined"
             /\ x.req.v1.type = "undefined") =>
                /\ x.pc = "responded"
                /\ IsChallenge(x.res)
                /\ x.calls = <<>>
                /\ Count(x.log, "executeSearch:call") = 0

C4_Witness ==
    \E s \in Slots :
        /\ IsGet(h[s].req)
        /\ ~BlankQuery(h[s].req)
        /\ h[s].req.sig.type = "undefined"
        /\ h[s].req.v1.type = "undefined"
        /\ Sent(h[s], 402)

\* The verify call of the run has ended negatively for one of the causes:
\* the token does not decode, the facilitator was unreachable or timed out
\* (before its headers or while its body was read), it answered with a
\* non-success status, or its body is unreadable, not JSON, null, or has no
\* true isValid.
VerifyNegative(x) ==
    /\ First(x.log, "verifyPayment:return") > 0
    /\ \/ ~DecodeToken(TokenOf(x.req)).ok
       \/ x.verifyReply.kind \in {"neterr", "timeout"}
       \/ /\ x.verifyReply.kind = "http"
          /\ \/ x.verifyReply.status # 200
             \/ ~x.verifyReply.readable
             \/ x.verifyReply.text \notin {TxtValid, TxtValidNoPayer}

\* C5: a GET request with a non-blank query and a token whose verification
\* is negative, for whatever cause, is answered 402 with the challenge; the
\* executor is not run and settle is not called.
C5_InvalidTokenChallenged ==
    \A s \in Slots :
        LET x == h[s]
        IN  (/\ IsGet(x.req)
             /\ ~BlankQuery(x.req)
             /\ TokenGiven(x.req)
             /\ VerifyNegative(x)) =>
                /\ x.pc = "responded"
                /\ IsChallenge(x.res)
                /\ Count(x.log, "executeSearch:call") = 0
                /\ Count(x.log, "settlePayment:call") = 0
                /\ Count(x.log, "fetch:/settle") = 0

C5_Witness ==
    \E s \in Slots :
        /\ TokenGiven(h[s].req)
        /\ VerifyNegative(h[s])
        /\ h[s].verifyReply = BodyTimeout(200)
        /\ Sent(h[s], 402)

\* C6: a GET request whose q is missing, empty or whitespace-only is
\* answered 400 "Missing required query parameter: q" whether or not it
\* carries a token; no facilitator call is made and the executor is not run.
C6_BlankQueryRejected ==
    \A s \in Slots :
        LET x == h[s]
        IN  (x.pc # "idle" /\ IsGet(x.req) /\ BlankQuery(x.req)) =>
                /\ x.pc = "responded"
                /\ x.res.status = 400
                /\ x.res.body.kind = "error"
                /\ x.res.body.error = "Missing required query parameter: q"
                /\ x.calls = <<>>
                /\ x.log = <<"respond:400">>

C6_Witness ==
    \E s \in Slots :
        /\ IsGet(h[s].req)
        /\ h[s].req.q = [type |-> "string", val |-> <<" ", " ">>]
        /\ TokenGiven(h[s].req)
        /\ Sent(h[s], 400)

\* The stub facilitator of the scenario: verify answers {isValid: true,
\* payer} and settle answers {success: true, transaction, payer}.
StubVerify == Reply("http", 200, TRUE, TxtValid)
StubSettle == Reply("http", 200, TRUE, TxtSettled)

\* The run's verify call was answered positively by the facilitator.
VerifyPositive(x) ==
    /\ First(x.log, "verifyPayment:return") > 0
    /\ x.verifyReply.kind = "http"
    /\ x.verifyReply.status = 200
    /\ x.verifyReply.readable
    /\ x.verifyReply.text \in {TxtValid, TxtValidNoPayer}

\* C7 (as claimed): once verification is positive the response is 200 with
\* exactly the executor's results and provenance tag, whatever the settle
\* call does.
C7_VerifiedAlways200 ==
    \A s \in Slots :
        LET x == h[s]
        IN  (Terminal(x) /\ VerifyPositive(x)) =>
                /\ x.pc = "responded"
                /\ x.res.status = 200
                /\ x.res.body.results = x.results
                /\ x.res.body.search_mode = x.search_mode

\* What the facilitator answered to the settle call of the run, parsed; not
\* ok when the call failed, the status was not a success or the body was
\* unreadable or not JSON.
FacilitatorOutcome(x) ==
    IF /\ x.settleReply.kind = "http"
       /\ x.settleReply.status \in 200 .. 299
       /\ x.settleReply.readable
    THEN JsonParse(x.settleReply.text)
    ELSE JBad

\* The settle call of the run did not come back with an outcome: it failed
\* in the network or timed out, before the headers or while the body was
\* read, the status was not a success, or the body could not be read or is
\* not JSON.
SettleFailedInTransit(x) ==
    \/ x.settleReply.kind \in {"neterr", "timeout"}
    \/ /\ x.settleReply.kind = "http"
       /\ \/ x.settleReply.status \notin 200 .. 299
          \/ ~x.settleReply.readable
          \/ x.settleReply.text \in UnparseableTexts

\* The facilitator returned an outcome whose success is false or missing.
SettleRefused(x) ==
    /\ FacilitatorOutcome(x).ok
    /\ FacilitatorOutcome(x).t \in {"object", "scalar"}
    /\ FacilitatorOutcome(x).success \in {"false", Undef}

\* The settlement of the run was unsuccessful: the settle call failed or
\* timed out, or the facilitator returned success false.
SettleUnsuccessful(x) ==
    /\ First(x.log, "settlePayment:return") > 0
    /\ SettleFailedInTransit(x) \/ SettleRefused(x)

\* C8 (as claimed): after an unsuccessful settlement the 200 response has
\* neither the PAYMENT-RESPONSE header nor a payment field.
C8_Original_NoReceiptNoPayment ==
    \A s \in Slots :
        LET x == h[s]
        IN  (Sent(x, 200) /\ SettleUnsuccessful(x)) =>
                /\ "PAYMENT-RESPONSE" \notin x.res.headers
                /\ ~x.res.body.hasPayment

\* C8 (amended): after an unsuccessful settlement the 200 response has no
\* PAYMENT-RESPONSE header; it has no payment field when the settle call
\* failed, timed out or got a non-success status, or when the outcome carries
\* no transaction id; when the facilitator returned success false together
\* with a transaction id, the body still carries the payment field, with
\* the transaction id and the payer of that outcome.
C8_NoReceiptPaymentByTransaction ==
    \A s \in Slots :
        LET x == h[s]
            outcome == FacilitatorOutcome(x)
        IN  (Sent(x, 200) /\ SettleUnsuccessful(x)) =>
                /\ "PAYMENT-RESPONSE" \notin x.res.headers
                /\ x.res.hPaymentResponse = <<>>
                /\ SettleFailedInTransit(x) =>
                       (~x.res.body.hasPayment /\ x.res.body.payment = NoPayment)
                /\ (SettleRefused(x) /\ outcome.transaction \in {Undef, ""}) =>
                       (~x.res.body.hasPayment /\ x.res.body.payment = NoPayment)
                /\ (SettleRefused(x) /\ outcome.transaction \notin {Undef, ""}) =>
                       /\ x.res.body.hasPayment
                       /\ x.res.body.payment = [transaction |-> outcome.transaction,
                                                payer |-> outcome.payer]

C8_Witness ==
    \E s \in Slots :
        /\ Sent(h[s], 200)
        /\ h[s].settleReply = Reply("http", 200, TRUE, TxtReverted)
        /\ SettleUnsuccessful(h[s])
        /\ "PAYMENT-RESPONSE" \notin h[s].res.headers
        /\ h[s].res.body.hasPayment
        /\ h[s].res.body.payment = [transaction |-> "0xT2", payer |-> "0xABC"]

\* The scenario of C9: a GET request with a non-blank query and a token, in
\* a run where every reply of the facilitator was the stub's.
StubScenario(x) ==
    /\ Terminal(x)
    /\ IsGet(x.req)
    /\ ~BlankQuery(x.req)
    /\ TokenGiven(x.req)
    /\ x.verifyReply \in {NoReply, StubVerify}
    /\ x.settleReply \in {NoReply, StubSettle}

PaidResponse(x) ==
    /\ x.pc = "responded"
    /\ x.res.status = 200
    /\ Len(x.res.body.results) > 0
    /\ x.res.body.hasPayment
    /\ x.res.body.payment.transaction = "0xT1"
    /\ "PAYMENT-RESPONSE" \in x.res.headers

\* C9 (as claimed): with the stub facilitator, any non-empty token yields the
\* paid 200 response.
C9_Original_AnyTokenPaid ==
    \A s \in Slots : StubScenario(h[s]) => PaidResponse(h[s])

\* C9 (amended): with the stub facilitator, any token that decodes (base64,
\* then JSON) yields 200 with a non-empty result sequence, payment.transaction
\* equal to the stub's and the PAYMENT-RESPONSE header; a token that does not
\* decode is answered 402 without any facilitator call.
C9_DecodableTokenPaid ==
    \A s \in Slots :
        LET x == h[s]
        IN  StubScenario(x) =>
                IF DecodeToken(TokenOf(x.req)).ok
                THEN PaidResponse(x)
                ELSE IsChallenge(x.res) /\ x.calls = <<>>

C9_Witness ==
    \E s \in Slots :
        /\ StubScenario(h[s])
        /\ h[s].req.sig.type = "undefined"
        /\ h[s].req.v1 = Hdr("string", TokPayload)
        /\ PaidResponse(h[s])

\* C10 (as claimed): once the query has passed validation, whatever the
\* facilitator and the executor do, the handler answers 402 or 200 and no
\* exception leaves it.
C10_Always402Or200 ==
    \A s \in Slots :
        LET x == h[s]
        IN  (Terminal(x) /\ IsGet(x.req) /\ ~BlankQuery(x.req)) =>
                /\ x.pc = "responded"
                /\ x.res.status \in {200, 402}

\* C11 (as claimed): every GET request that has come to its end has reached
\* exactly one of Rejected (400), Challenged (402) and Responded (200) and
\* has sent exactly one response, and no step of the protocol (verify,
\* execute, settle) was entered twice in it.
C11_OneTerminalOneResponse ==
    \A s \in Slots :
        LET x == h[s]
            responses == {"respond:200", "respond:400", "respond:402", "respond:405"}
            sent == Cardinality({i \in DOMAIN x.log : x.log[i] \in responses})
        IN  /\ \A ev \in {"verifyPayment:call", "executeSearch:call", "settlePayment:call"} :
                  Count(x.log, ev) <= 1
            /\ sent <= 1
            /\ (Terminal(x) /\ IsGet(x.req)) =>
                   /\ x.pc = "responded"
                   /\ x.res.status \in {400, 402, 200}
                   /\ sent = 1

\* The tokens whose decode fails: "not json" in base64, characters outside
\* the base64 alphabet, the empty string.
UndecodableTokens == {TokNotJson, TokNotBase64, ""}

\* C12: for every token whose base64/JSON decode fails, verifyPayment
\* returns valid = false and settlePayment returns success = false, and
\* neither issues a request to the facilitator.
C12_UndecodableNoRequest ==
    \A k \in Callers :
        LET call == lib[k]
        IN  call.pc = "returned" =>
                (
                    (call.op # "none" /\ call.token \in UndecodableTokens) =>
                        /\ ~call.fetched
                        /\ call.reply = NoReply
                        /\ call.op = "verify" => call.verification.valid = FALSE
                        /\ call.op = "settle" => /\ call.settlement.t = "object"
                                               /\ call.settlement.success = "false"
                )

C12_Witness ==
    \E k \in Callers :
        LET call == lib[k]
        IN  /\ call.pc = "returned"
            /\ (
                    /\ call.op = "settle"
                    /\ call.token = TokNotBase64
                    /\ ~call.fetched
                    /\ call.settlement.success = "false"
                    /\ call.settlement.errorReason = Err("Invalid payment signature encoding", 0, "")
               )

\* The fetch did not bring back a body that parses: it was rejected (network
\* failure, timeout), the status is not a success, or the body cannot be
\* read or is not JSON.
CallFailed(reply) ==
    \/ reply.kind \in {"neterr", "timeout"}
    \/ /\ reply.kind = "http"
       /\ \/ reply.status < 200
          \/ reply.status > 299
          \/ ~reply.readable
          \/ reply.text \in UnparseableTexts

\* C13: verifyPayment and settlePayment return an outcome whatever the fetch
\* does; after a network failure, a timeout, a non-success status or an
\* unparseable body the outcome is negative (valid = false, success = false)
\* and carries an error detail, which for a non-success status holds the
\* status and the body text.
C13_FailuresBecomeOutcomes ==
    \A k \in Callers :
        LET call == lib[k]
        IN  call.pc = "returned" =>
                (
                    /\ call.op = "verify" => call.verification.valid \in BOOLEAN
                    /\ call.op = "settle" => call.settlement.t \in {"object", "null", "scalar"}
                    /\ (call.op # "none" /\ call.fetched /\ CallFailed(call.reply)) =>
                          LET error == IF call.op = "verify" THEN call.verification.error
                                       ELSE call.settlement.errorReason
                          IN  /\ call.op = "verify" => call.verification.valid = FALSE
                              /\ call.op = "settle" => /\ call.settlement.t = "object"
                                                     /\ call.settlement.success = "false"
                              /\ error # NoErr
                              /\ error.code # Undef
                              /\ (call.reply.kind = "http" /\ ~ResponseOk(call.reply)) =>
                                     /\ error.status = call.reply.status
                                     /\ error.text = (IF call.reply.readable THEN call.reply.text ELSE "")
                )

C13_Witness ==
    \E k \in Callers :
        LET call == lib[k]
        IN  /\ call.pc = "returned"
            /\ (
                    /\ call.op = "settle"
                    /\ call.fetched
                    /\ call.reply = Reply("http", 500, TRUE, TxtSettled)
                    /\ call.settlement.success = "false"
                    /\ call.settlement.errorReason = Err("Facilitator settle returned", 500, TxtSettled)
               )

\* The response the same request gets when it carries no token.
WithoutToken(req) == [req EXCEPT !.sig = HdrAbsent, !.v1 = HdrAbsent]
UnpaidResponse(req) == HandlerStart(WithoutToken(req), env.SEARCH_PROVIDER).res

\* C14: the 402 response to a token that is present and rejected equals, in
\* status, body, PAYMENT-REQUIRED and WWW-Authenticate headers, the 402
\* response to the same request without a token, whatever the token and
\* whatever made the verification fail.
C14_RejectedLikeAbsent ==
    \A s \in Slots :
        LET x == h[s]
            unpaid402 == UnpaidResponse(x.req)
        IN  (/\ IsGet(x.req)
             /\ ~BlankQuery(x.req)
             /\ TokenGiven(x.req)
             /\ VerifyNegative(x)) =>
                /\ x.pc = "responded"
                /\ unpaid402.status = 402
                /\ x.res.status = unpaid402.status
                /\ x.res.body = unpaid402.body
                /\ x.res.headers = unpaid402.headers
                /\ x.res.hPaymentRequired = unpaid402.hPaymentRequired
                /\ x.res.hWWWAuthenticate = unpaid402.hWWWAuthenticate
                /\ x.res = unpaid402

C14_Witness ==
    \E s \in Slots :
        /\ TokenGiven(h[s].req)
        /\ h[s].verifyReply = Reply("http", 200, TRUE, TxtExpired)
        /\ h[s].verification.error = Err("verbatim", 0, "expired")
        /\ Sent(h[s], 402)
        /\ h[s].res = UnpaidResponse(h[s].req)

\* The requirements a 402 response offers for a path.
Offers == [resource \in ResourcePaths |->
              send402(NewResponse, resource).body.challenge.accepts]
Offered(resource) == Offers[resource]

\* For every path, the challenge offers one requirement and the verify and
\* settle bodies built for the path carry it.
OneRequirementPerPath ==
    \A resource \in ResourcePaths :
        /\ Len(Offered(resource)) = 1
        /\ DOMAIN Offered(resource)[1] =
               {"scheme", "network", "amount", "asset", "payTo", "maxTimeoutSeconds", "extra"}
        /\ \A endpoint \in {"/verify", "/settle"}, tok \in {TokEmptyObj, TokPayload} :
               FacilitatorCall(endpoint, tok, resource).paymentRequirements =
                   Offered(resource)[1]

\* C15: the requirement sent to the facilitator in every verify body and
\* every settle body is, field for field, the single requirement the 402
\* challenge offers for the path, in every request the process handles.
C15_SameRequirementEverywhere ==
    /\ OneRequirementPerPath
    /\ \A s \in Slots :
          LET x == h[s]
          IN  /\ \A i \in DOMAIN x.calls :
                    /\ x.calls[i].paymentRequirements = Offered(RESOURCE)[1]
                    /\ \A f \in DOMAIN Offered(RESOURCE)[1] :
                           x.calls[i].paymentRequirements[f] = Offered(RESOURCE)[1][f]
              /\ Sent(x, 402) => x.res.body.challenge.accepts = Offered(RESOURCE)

C15_Witness ==
    \E s \in Slots :
        /\ Sent(h[s], 200)
        /\ Len(h[s].calls) = 2
        /\ h[s].calls[1].url = <<FACILITATOR_URL, "/verify">>
        /\ h[s].calls[2].url = <<FACILITATOR_URL, "/settle">>
        /\ h[s].calls[1].paymentRequirements = Offered(RESOURCE)[1]
        /\ h[s].calls[2].paymentRequirements = Offered(RESOURCE)[1]
        /\ h[s].calls[2].paymentRequirements.amount = "2000"

\* What a client does with a header value: base64 to bytes (four characters
\* become three bytes, "=" pads the last group), bytes to text, text to JSON.
Base64Value ==
    [c \in {Base64Alphabet[i] : i \in 1 .. 64} |->
        (CHOOSE i \in 1 .. 64 : Base64Alphabet[i] = c) - 1]

DecodeBase64(chars) ==
    LET n == Len(chars)
        pad == IF n > 0 /\ chars[n] = "="
               THEN (IF n > 1 /\ chars[n - 1] = "=" THEN 2 ELSE 1)
               ELSE 0
        val(i) == IF chars[i] = "=" THEN 0 ELSE Base64Value[chars[i]]
        group(g) == val(4 * g + 1) * 262144 + val(4 * g + 2) * 4096
                        + val(4 * g + 3) * 64 + val(4 * g + 4)
        byte(j) == (group((j - 1) \div 3) \div (256 ^ (2 - ((j - 1) % 3)))) % 256
    IN  IF n % 4 # 0 THEN <<>> ELSE [j \in 1 .. (3 * (n \div 4) - pad) |-> byte(j)]

SettleTexts ==
    {TxtSettled, TxtSettledSpaced, TxtSettledNoTx, TxtSettledOne, TxtInsufficient,
     TxtFailedEmptyTx, TxtReverted, TxtEmptyObj, TxtNull, TxtFive, TxtHtml}

SettleTextBytes == [t \in SettleTexts |-> Utf8(t)]

Utf8Decode(bytes) ==
    IF \E t \in SettleTexts : SettleTextBytes[t] = bytes
    THEN CHOOSE t \in SettleTexts : SettleTextBytes[t] = bytes
    ELSE ""

HeaderOutcome(chars) == JsonParse(Utf8Decode(DecodeBase64(chars)))

\* C16 (as claimed): a 200 response has the PAYMENT-RESPONSE header exactly
\* when the settlement outcome has success = true, and the header then
\* decodes (base64, then JSON) to the outcome the facilitator returned.
C16_ReceiptIffSuccess ==
    \A s \in Slots :
        LET x == h[s]
            present == "PAYMENT-RESPONSE" \in x.res.headers
            outcome == FacilitatorOutcome(x)
            decoded == HeaderOutcome(x.res.hPaymentResponse)
        IN  Sent(x, 200) =>
                /\ present <=> (outcome.ok /\ outcome.t = "object" /\ outcome.success = "true")
                /\ present <=> x.settlement.success = "true"
                /\ present => (decoded.ok /\ decoded = outcome)
                /\ ~present => x.res.hPaymentResponse = <<>>

\* C17: the body of a 200 response has the payment field exactly when the
\* settlement outcome carries a non-empty transaction id, and then
\* payment.transaction and payment.payer are those of the outcome.
C17_PaymentIffTransaction ==
    \A s \in Slots :
        LET x == h[s]
            outcome == FacilitatorOutcome(x)
            carries == outcome.ok /\ outcome.transaction \notin {Undef, ""}
        IN  Sent(x, 200) =>
                /\ x.res.body.hasPayment <=> carries
                /\ x.res.body.hasPayment <=> x.settlement.transaction \notin {Undef, ""}
                /\ x.res.body.hasPayment =>
                       /\ x.res.body.payment.transaction = outcome.transaction
                       /\ x.res.body.payment.payer = outcome.payer
                /\ ~x.res.body.hasPayment => x.res.body.payment = NoPayment

C17_Witness ==
    \E s \in Slots :
        /\ Sent(h[s], 200)
        /\ h[s].settleReply = Reply("http", 200, TRUE, TxtSettled)
        /\ h[s].res.body.hasPayment
        /\ h[s].res.body.payment = [transaction |-> "0xT1", payer |-> "0xABC"]

\* The body of a 402 response as the JSON text res.json sends, and the
\* challenge in it without the error string.
BodyText(body) ==
    JsonStringify(TObj(ChallengeMembers(body.challenge)
                           \o << <<"error", TStr(Utf8(body.error))>> >>))
BodyChallengeText(body) == JsonStringify(TObj(ChallengeMembers(body.challenge)))

\* C18 (as claimed): on every 402 response the PAYMENT-REQUIRED header
\* decodes (base64, then JSON) to the same value as the response body.
C18_Original_HeaderIsBody ==
    \A s \in Slots :
        Sent(h[s], 402) =>
            DecodeBase64(h[s].res.hPaymentRequired) = BodyText(h[s].res.body)

\* C18 (amended): on every 402 response the PAYMENT-REQUIRED header decodes
\* to the challenge of the body (version tag, resource, requirements)
\* without an error string; the body carries the same challenge and, in
\* addition, the fixed error string.
C18_HeaderIsBodyWithoutError ==
    \A s \in Slots :
        LET x == h[s]
            decoded == DecodeBase64(x.res.hPaymentRequired)
        IN  Sent(x, 402) =>
                /\ "PAYMENT-REQUIRED" \in x.res.headers
                /\ decoded = BodyChallengeText(x.res.body)
                /\ decoded # BodyText(x.res.body)
                /\ x.res.body.kind = "challenge"
                /\ x.res.body.error = ChallengeError

C18_Witness ==
    \E s \in Slots :
        /\ Sent(h[s], 402)
        /\ h[s].verifyReply = BodyTimeout(200)
        /\ Len(h[s].res.hPaymentRequired) = 452
        /\ SubSeq(h[s].res.hPaymentRequired, 1, 4) = <<"e", "y", "J", "4">>
        /\ DecodeBase64(h[s].res.hPaymentRequired) = BodyChallengeText(h[s].res.body)
        /\ h[s].res.body.error = ChallengeError

\* query is raw without the whitespace at its two ends.
IsTrimOf(query, raw) ==
    /\ query # <<>> => (query[1] \notin Whitespace /\ query[Len(query)] \notin Whitespace)
    /\ \E a \in 0 .. Len(raw) :
          /\ a + Len(query) <= Len(raw)
          /\ \A i \in 1 .. a : raw[i] \in Whitespace
          /\ \A i \in 1 .. Len(query) : raw[a + i] = query[i]
          /\ \A i \in (a + Len(query) + 1) .. Len(raw) : raw[i] \in Whitespace

\* The query of a request, trimmed.
TrimmedOf(raw) == CHOOSE query \in QStrings : IsTrimOf(query, raw)

\* The token of the run decodes and the facilitator answered its verify
\* call with isValid true.
Accepted(x) ==
    /\ DecodeToken(TokenOf(x.req)).ok
    /\ x.verifyReply.kind = "http"
    /\ x.verifyReply.status = 200
    /\ x.verifyReply.readable
    /\ x.verifyReply.text \in {TxtValid, TxtValidNoPayer}

\* The responses of the protocol, written out.
ExpectedError(status, message) ==
    [status |-> status,
     headers |-> {},
     hPaymentRequired |-> <<>>,
     hWWWAuthenticate |-> <<"", "">>,
     hPaymentResponse |-> <<>>,
     body |-> [NoBody EXCEPT !.kind = "error", !.error = message]]

ExpectedChallenged ==
    [status |-> 402,
     headers |-> {"PAYMENT-REQUIRED", "WWW-Authenticate"},
     hPaymentRequired |-> Base64Encode(ExpectedChallengeBytes("/api/search")),
     hWWWAuthenticate |-> <<"x402 facilitator=", "https://www.x402.org/facilitator">>,
     hPaymentResponse |-> <<>>,
     body |-> [NoBody EXCEPT
                  !.kind = "challenge",
                  !.challenge = ExpectedChallenge("/api/search"),
                  !.error =
                      "Payment required. Include PAYMENT-SIGNATURE header with a valid x402 payment."]]

\* The receipt for a body the facilitator can send: base64 of the JSON text
\* of its value.
ExpectedReceipt == [t \in SettleTexts |-> Base64Encode(Utf8(JsonParse(t).src))]

ExpectedResults(x) ==
    LET outcome == FacilitatorOutcome(x)
        settled == outcome.ok /\ outcome.t = "object" /\ Truthy(outcome.success)
        shown == outcome.ok /\ outcome.t = "object" /\ outcome.transaction \notin {Undef, ""}
    IN  [status |-> 200,
         headers |-> IF settled THEN {"PAYMENT-RESPONSE"} ELSE {},
         hPaymentRequired |-> <<>>,
         hWWWAuthenticate |-> <<"", "">>,
         hPaymentResponse |-> IF settled THEN ExpectedReceipt[x.settleReply.text] ELSE <<>>,
         body |-> [NoBody EXCEPT
                      !.kind = "results",
                      !.query = TrimmedOf(x.req.q.val),
                      !.results = x.results,
                      !.search_mode = x.search_mode,
                      !.pricing = [currency |-> "USDC", amount |-> "0.002",
                                   unit |-> "per_request"],
                      !.provider = "micropaid-search-api",
                      !.agent_identity = getAgentIdentity,
                      !.hasPayment = shown,
                      !.payment = IF shown
                                  THEN [transaction |-> outcome.transaction,
                                        payer |-> outcome.payer]
                                  ELSE NoPayment]]

\* How a request ends when it is the only one the process has ever handled,
\* read from the request, the answers of the facilitator and the results of
\* the executor: the response, or no response when the settle call came
\* back with the JSON value null (the handler throws on it).
Expected(x) ==
    IF ~IsGet(x.req)
    THEN [pc |-> "responded", res |-> ExpectedError(405, "Method not allowed")]
    ELSE IF BlankQuery(x.req)
    THEN [pc |-> "responded",
          res |-> ExpectedError(400, "Missing required query parameter: q")]
    ELSE IF ~TokenGiven(x.req) \/ ~Accepted(x)
    THEN [pc |-> "responded", res |-> ExpectedChallenged]
    ELSE IF FacilitatorOutcome(x).ok /\ FacilitatorOutcome(x).t = "null"
    THEN [pc |-> "threw", res |-> NewResponse]
    ELSE [pc |-> "responded", res |-> ExpectedResults(x)]

Answer(x) == [pc |-> x.pc, res |-> x.res]

\* The handler run on the request of x by itself, from a fresh start, with
\* the answers x got from the facilitator and from the executor.
Alone(x) ==
    LET setting == env.SEARCH_PROVIDER
        a0 == HandlerStart(x.req, setting)
        a1 == IF a0.pc = "awaitVerify"
              THEN Verified([a0 EXCEPT !.verifyReply = x.verifyReply],
                            verifyPayment(a0.paymentSig, RESOURCE, x.verifyReply), setting)
              ELSE a0
        a2 == IF a1.pc = "awaitSearch"
              THEN Executed(a1, SearchResponse(x.results, x.search_mode))
              ELSE a1
    IN  IF a2.pc = "awaitSettle"
        THEN Respond(Logged([a2 EXCEPT !.settleReply = x.settleReply],
                            <<"settlePayment:return">>),
                     settlePayment(a2.paymentSig, RESOURCE, x.settleReply))
        ELSE a2

\* Every request that has ended was answered as the first request of the
\* process is, however many requests before it ended unpaid.
AnsweredAsFirst ==
    \A s \in Slots :
        LET x == h[s]
        IN  Terminal(x) =>
                /\ Answer(x) = Expected(x)
                /\ x.pc = Alone(x).pc
                /\ x.res = Alone(x).res

\* C19 (as claimed): whatever number of earlier requests ended unpaid (no
\* token, rejected token, failed settlement), a request is answered exactly
\* as the first request of the process is, and a request whose token the
\* facilitator accepts reaches 200.
C19_NoMemoryAcrossRequests ==
    /\ AnsweredAsFirst
    /\ \A s \in Slots :
          LET x == h[s]
          IN  (/\ Terminal(x)
               /\ IsGet(x.req)
               /\ ~BlankQuery(x.req)
               /\ TokenGiven(x.req)
               /\ Accepted(x)) => Sent(x, 200)

\* C20: however the steps of the requests in hand interleave, each request
\* gets the response (status, headers, body) a request handled alone gets
\* with the same facilitator and executor answers, as written out in
\* Expected and as the handler run by itself gives it.
C20_InterleavingIndependent ==
    \A s \in Slots :
        LET x == h[s]
        IN  /\ Terminal(x) => Answer(x) = Expected(x)
            /\ Terminal(x) => x = Alone(x)
            /\ (x.pc # "idle" /\ x.req.q.type = "string") => x.q = Trim(x.req.q.val)
            /\ Sent(x, 200) => x.res.body.query = Trim(x.req.q.val)

C20_Witness ==
    \E s, t \in Slots :
        /\ s # t
        /\ Sent(h[s], 200)
        /\ h[s].res.body.query = <<"b">>
        /\ "PAYMENT-RESPONSE" \in h[s].res.headers
        /\ Answer(h[s]) = Expected(h[s])
        /\ Sent(h[t], 402)
        /\ TokenGiven(h[t].req)
        /\ h[t].q = <<"b", "b">>
        /\ h[t].verifyReply = BodyTimeout(200)
        /\ Answer(h[t]) = Expected(h[t])

\* The requests in progress or ended that carry the token and whose
\* verification was positive.
VerifiedWith(token) ==
    {s \in Slots : h[s].pc # "idle" /\ h[s].paymentSig = token /\ VerifyPositive(h[s])}

\* C21: there is no deduplication by token: of the requests that carry the
\* same token and are verified positively, concurrent or one after the
\* other, each one that has ended has run the executor once and has made its
\* own settle call for that token, so N such requests make N executor runs
\* and N settle calls.
C21_NoDeduplication ==
    \A token \in {TokEmptyObj, TokPayload} :
        LET ended == {s \in VerifiedWith(token) : Terminal(h[s])}
            settles(s) == {i \in DOMAIN h[s].calls :
                              h[s].calls[i] = FacilitatorCall("/settle", token, RESOURCE)}
        IN  /\ \A s \in ended :
                   /\ Count(h[s].log, "executeSearch:call") = 1
                   /\ Count(h[s].log, "settlePayment:call") = 1
                   /\ Count(h[s].log, "fetch:/settle") = 1
                   /\ Cardinality(settles(s)) = 1
            /\ \A s \in VerifiedWith(token) :
                   /\ Count(h[s].log, "executeSearch:call") = 1
                   /\ h[s].pc = "awaitSettle" => Cardinality(settles(s)) = 1

C21_Witness ==
    /\ Cardinality(VerifiedWith(TokEmptyObj)) >= 2
    /\ \A s \in VerifiedWith(TokEmptyObj) :
           /\ Sent(h[s], 200)
           /\ Count(h[s].log, "fetch:/settle") = 1

\* C22: no facilitator call is retried within a request: verify is fetched
\* at most once and settle at most once, and a fetch that times out (before
\* the headers or while the body is read) or fails in the network ends the
\* call at once with a negative outcome, a failed
\* verify leading to the 402 challenge and a failed settle to the 200
\* response without receipt.
C22_NoRetry ==
    \A s \in Slots :
        LET x == h[s]
            failed(reply) == reply.kind \in {"neterr", "timeout"}
        IN  /\ Count(x.log, "verifyPayment:call") <= 1
            /\ Count(x.log, "fetch:/verify") <= 1
            /\ Count(x.log, "settlePayment:call") <= 1
            /\ Count(x.log, "fetch:/settle") <= 1
            /\ Len(x.calls) <= 2
            /\ failed(x.verifyReply) =>
                   /\ x.verification.valid = FALSE
                   /\ Sent(x, 402)
                   /\ IsChallenge(x.res)
                   /\ Len(x.calls) = 1
                   /\ Count(x.log, "executeSearch:call") = 0
            /\ failed(x.settleReply) =>
                   /\ x.settlement.success = "false"
                   /\ Sent(x, 200)
                   /\ "PAYMENT-RESPONSE" \notin x.res.headers
                   /\ ~x.res.body.hasPayment
                   /\ Len(x.calls) = 2

C22_Witness ==
    \E s \in Slots :
        /\ h[s].settleReply = BodyTimeout(200)
        /\ Count(h[s].log, "fetch:/verify") = 1
        /\ Count(h[s].log, "fetch:/settle") = 1
        /\ Sent(h[s], 200)
        /\ "PAYMENT-RESPONSE" \notin h[s].res.headers

\* C23: buildPaymentRequired is deterministic: for every resource path
\* every call returns the one challenge written out for that path, field by
\* field and, as JSON text, byte for byte, so that two calls return the
\* same challenge; it has exactly one payment alternative, of scheme
\* "exact", whose amount is the fixed price as a string of digits.
C23_ChallengeDeterministic ==
    \A k \in Callers :
        LET call == lib[k]
        IN  call.pc = "returned" =>
                (
                    call.op = "build" =>
                        \A i \in DOMAIN call.output :
                            LET challenge == call.output[i]
                            IN  /\ challenge = call.output[1]
                                /\ challenge = ExpectedChallenge(call.input)
                                /\ JsonStringify(TObj(ChallengeMembers(challenge))) =
                                       ExpectedChallengeBytes(call.input)
                                /\ challenge.x402Version = 2
                                /\ challenge.resource.url = call.input
                                /\ Len(challenge.accepts) = 1
                                /\ challenge.accepts[1].scheme = "exact"
                                /\ challenge.accepts[1].amount = "2000"
                                /\ challenge.accepts[1].amount = PRICE_UNITS
                )

C23_Witness ==
    \E k \in Callers :
        LET call == lib[k]
        IN  /\ call.pc = "returned"
            /\ (
                    /\ call.op = "build"
                    /\ call.input = "/api/other"
                    /\ Len(call.output) = 2
                    /\ call.output[2] = ExpectedChallenge("/api/other")
                    /\ call.output[2].accepts[1].amount = "2000"
               )

\* C24: extractPaymentSignature returns the PAYMENT-SIGNATURE value whenever
\* that header is a non-empty string, whatever X-PAYMENT holds; the X-PAYMENT
\* value only when PAYMENT-SIGNATURE gives no value and X-PAYMENT is a
\* non-empty string; null when neither gives a value.  The value is returned
\* as it was sent, decodable or not.
C24_HeaderPrecedence ==
    \A k \in Callers :
        LET call == lib[k]
        IN  call.pc = "returned" =>
                (
                    call.op = "extract" =>
                        LET req == call.input
                        IN  /\ HeaderGiven(req.sig) => call.output = req.sig.val
                            /\ (~HeaderGiven(req.sig) /\ HeaderGiven(req.v1)) => call.output = req.v1.val
                            /\ (~HeaderGiven(req.sig) /\ ~HeaderGiven(req.v1)) => call.output = Null
                            /\ call.output \in {req.sig.val, req.v1.val, Null}
                )

C24_Witness ==
    \E k \in Callers :
        LET call == lib[k]
        IN  /\ call.pc = "returned"
            /\ (
                    /\ call.op = "extract"
                    /\ call.input.sig = Hdr("string", TokNotJson)
                    /\ call.input.v1 = Hdr("string", TokPayload)
                    /\ call.output = TokNotJson
               )

\* The live retrieval brought back a page with at least one result in it,
\* and no block with an undecodable URL among the blocks that are read (those
\* before the fifth result is found).
LiveParsed(reply) ==
    /\ reply.kind = "http"
    /\ reply.status \in 200 .. 299
    /\ reply.readable
    /\ \E i \in DOMAIN reply.blocks : reply.blocks[i] = "ok"
    /\ \A i \in DOMAIN reply.blocks :
           reply.blocks[i] = "malformed" =>
               Cardinality({j \in 1 .. i - 1 : reply.blocks[j] = "ok"}) >= 5

\* C25: with the live strategy configured, every failure of the live
\* retrieval (network error, timeout, non-success status, unreadable page,
\* undecodable result URL, no result parsed) is absorbed: executeSearch returns the static results
\* for the same query, which are not empty, tagged fallback_stub; the tag is
\* duckduckgo exactly when the live retrieval parsed a result, and stub
\* exactly when the static strategy is configured.
C25_LiveFailureAbsorbed ==
    \A k \in Callers :
        LET call == lib[k]
        IN  call.pc = "returned" =>
                (
                    call.op = "search" =>
                        LET static == call.input.setting \in {"stub", "STUB"}
                            parsed == LiveParsed(call.input.reply)
                            out == call.output
                        IN  /\ out.search_mode \in {"duckduckgo", "stub", "fallback_stub"}
                            /\ (~static /\ ~parsed) =>
                                   /\ out.search_mode = "fallback_stub"
                                   /\ out.results = stubResults(call.input.query)
                                   /\ Len(out.results) > 0
                                   /\ \A i \in DOMAIN out.results :
                                          out.results[i].title.arg = call.input.query
                            /\ out.search_mode = "duckduckgo" <=> (~static /\ parsed)
                            /\ out.search_mode = "duckduckgo" => Len(out.results) \in 1 .. MaxResults
                            /\ out.search_mode = "stub" <=> static
                            /\ out.search_mode = "stub" => out.results = stubResults(call.input.query)
                )

C25_Witness ==
    \E k \in Callers :
        LET call == lib[k]
        IN  /\ call.pc = "returned"
            /\ (
                    /\ call.op = "search"
                    /\ call.input.setting = Undef
                    /\ call.input.reply = DdgReply("http", 200, TRUE, <<"nomatch", "internal">>)
                    /\ call.output.search_mode = "fallback_stub"
                    /\ call.output.results = stubResults(call.input.query)
                    /\ Len(call.output.results) = 5
               )

\* C26 (as claimed): every request whose verification is positive is
\* answered 200 with the search results and the PAYMENT-RESPONSE header.
C26_Original_ValidPaymentReceipt ==
    \A s \in Slots :
        LET x == h[s]
        IN  (Terminal(x) /\ VerifyPositive(x)) =>
                /\ Sent(x, 200)
                /\ x.res.body.results = x.results
                /\ "PAYMENT-RESPONSE" \in x.res.headers

\* The body of the facilitator's answer to the direct call, parsed; not ok
\* when there is no readable JSON body.
LibBody(call) ==
    IF call.reply.kind = "http" /\ call.reply.readable
    THEN JsonParse(call.reply.text) ELSE JBad

\* C27 (as claimed): verifyPayment returns valid = true, with the payer of the body, only
\* when the token decoded, the facilitator answered with a success status
\* and the body's isValid is true; when isValid is false the error is the
\* body's invalidReason, or "Payment verification failed" when it gives
\* none; when the status is not a success the error names the status and
\* the text of the body.
C27_ValidOnlyWhenFacilitatorSaysSo ==
    \A k \in Callers :
        LET call == lib[k]
        IN  call.pc = "returned" =>
                (
                    call.op = "verify" =>
                        LET v == call.verification
                            answered == /\ DecodeToken(call.token).ok
                                        /\ call.fetched
                                        /\ call.reply.kind = "http"
                                        /\ call.reply.status \in 200 .. 299
                                        /\ LibBody(call).ok
                                        /\ LibBody(call).t # "null"
                        IN  /\ v.valid <=> (answered /\ LibBody(call).isValid = "true")
                            /\ v.valid => (v.payer = LibBody(call).payer /\ v.error = NoErr)
                            /\ (answered /\ LibBody(call).isValid # "true") =>
                                   v.error = IF LibBody(call).invalidReason \notin {Undef, ""}
                                             THEN Err("verbatim", 0, LibBody(call).invalidReason)
                                             ELSE Err("Payment verification failed", 0, "")
                            /\ (call.fetched /\ call.reply.kind = "http" /\ call.reply.status \notin 200 .. 299) =>
                                   /\ ~v.valid
                                   /\ v.error.code = "Facilitator verify returned"
                                   /\ v.error.status = call.reply.status
                                   /\ v.error.text = (IF call.reply.readable THEN call.reply.text ELSE "")
                )

\* C28 (as claimed): when the facilitator answers the settle call with a
\* success status and a JSON body, settlePayment returns that body as it is,
\* and what it returns is an object with a boolean success.
C28_SettleBodyIsOutcome ==
    \A k \in Callers :
        LET call == lib[k]
        IN  call.pc = "returned" =>
                (
                    (/\ call.op = "settle"
                     /\ call.fetched
                     /\ call.reply.kind = "http"
                     /\ call.reply.status \in 200 .. 299
                     /\ LibBody(call).ok) =>
                        /\ call.settlement = SettlementFromJson(LibBody(call))
                        /\ call.settlement.t = "object"
                        /\ call.settlement.success \in {"true", "false"}
                )

\* C29: within a request the token and the resource path passed to
\* settlePayment are those passed to verifyPayment before it, which came
\* back positive, so that no token is settled without having been verified
\* in the same request; the token is the one the request carries; and the
\* query passed to the executor and echoed in the 200 response is the query
\* of the request, trimmed.
C29_ArgumentsCarriedThrough ==
    \A s \in Slots :
        LET x == h[s]
            at(fn) == {i \in DOMAIN x.args : x.args[i].fn = fn}
            posted(endpoint) == {i \in DOMAIN x.calls :
                                    x.calls[i].url = <<FACILITATOR_URL, endpoint>>}
        IN  /\ \A i \in at("verifyPayment") :
                   /\ x.args[i].paymentSignature = TokenOf(x.req)
                   /\ x.args[i].resource = "/api/search"
            /\ \A i \in at("settlePayment") :
                   /\ x.verification.valid
                   /\ VerifyPositive(x)
                   /\ \E j \in at("verifyPayment") :
                          /\ j < i
                          /\ x.args[j].paymentSignature = x.args[i].paymentSignature
                          /\ x.args[j].resource = x.args[i].resource
            /\ \A i \in posted("/settle") :
                   \E j \in posted("/verify") :
                       /\ j < i
                       /\ x.calls[j].paymentPayload = x.calls[i].paymentPayload
                       /\ x.calls[j].paymentRequirements = x.calls[i].paymentRequirements
            /\ \A i \in at("executeSearch") :
                   /\ x.req.q.type = "string"
                   /\ x.args[i].query # <<>>
                   /\ IsTrimOf(x.args[i].query, x.req.q.val)
                   /\ Sent(x, 200) => x.res.body.query = x.args[i].query
            /\ Sent(x, 200) => Cardinality(at("executeSearch")) = 1

C29_Witness ==
    \E s \in Slots :
        /\ Sent(h[s], 200)
        /\ h[s].req.sig = Hdr("string", TokEmptyObj)
        /\ h[s].req.v1 = Hdr("string", TokPayload)
        /\ h[s].req.q.val = <<" ", "b">>
        /\ Len(h[s].args) = 3
        /\ h[s].args[3].fn = "settlePayment"
        /\ h[s].args[3].paymentSignature = TokEmptyObj
        /\ h[s].res.body.query = <<"b">>

\* C30: a request whose method is not GET is answered 405 "Method not
\* allowed" before anything else is looked at, whatever its query and its
\* payment headers: no 400 and no 402, no call to the facilitator, no run of
\* the executor, and none of the payment headers on the response.
C30_MethodCheckedFirst ==
    \A s \in Slots :
        LET x == h[s]
        IN  (x.pc # "idle" /\ x.req.method # "GET") =>
                /\ x.pc = "responded"
                /\ x.res.status = 405
                /\ x.res.body.kind = "error"
                /\ x.res.body.error = "Method not allowed"
                /\ x.log = <<"respond:405">>
                /\ x.args = <<>>
                /\ x.calls = <<>>
                /\ x.res.headers = {}
                /\ x.res.hPaymentRequired = <<>>
                /\ x.res.hPaymentResponse = <<>>

C30_Witness ==
    \E s \in Slots :
        /\ h[s].req.method = "POST"
        /\ h[s].req.q.type = "undefined"
        /\ h[s].req.sig = Hdr("string", TokEmptyObj)
        /\ Sent(h[s], 405)

\* C31: every 200 response carries at least one and at most five results,
\* whatever strategy the executor is configured for and whatever the live
\* retrieval came back with; the results are those the executor returned,
\* each with its title, url and snippet.
C31_ResultsBounded ==
    \A s \in Slots :
        LET x == h[s]
        IN  Sent(x, 200) =>
                /\ x.res.body.kind = "results"
                /\ Len(x.res.body.results) >= 1
                /\ Len(x.res.body.results) <= 5
                /\ x.res.body.search_mode \in {"duckduckgo", "stub", "fallback_stub"}
                /\ x.res.body.search_mode \in {"stub", "fallback_stub"} =>
                       Len(x.res.body.results) = 5
                /\ \A i \in DOMAIN x.res.body.results :
                       DOMAIN x.res.body.results[i] = {"title", "url", "snippet"}

C31_Witness ==
    \E s \in Slots :
        /\ Sent(h[s], 200)
        /\ h[s].res.body.search_mode = "duckduckgo"
        /\ Len(h[s].res.body.results) = 5
        /\ h[s].res.body.results[5] = BlockResult(6)

\* The ids that have an owner.
Owned(c) == {id \in TokenIds : c.owners[id] # ZeroAddress}
Registers == {"register(string)", "register()"}

\* C32: after any sequence of calls the successful register calls have
\* returned 1, 2, 3, ... in order, without gap and without reuse; the id a
\* register call returns had no owner before and is owned by the caller
\* when the call returns; and totalAgents() is the number of successful
\* register calls.
C32_IdsSequential ==
    LET n == Len(chain.returned)
        call == chain.last
    IN  /\ \A i \in 1 .. n : chain.returned[i] = i
        /\ totalAgents(chain.c).ok
        /\ totalAgents(chain.c).ret = n
        /\ Owned(chain.c) = 1 .. n
        /\ call.fn \in Registers =>
               /\ call.ok
               /\ call.ret = n
               /\ call.ret = totalAgents(chain.before).ret + 1
               /\ call.ret \notin Owned(chain.before)
               /\ chain.c.owners[call.ret] = call.sender
               /\ Owned(chain.c) = Owned(chain.before) \cup {call.ret}

C32_Witness ==
    /\ chain.returned = <<1, 2>>
    /\ chain.last.fn = "register()"
    /\ chain.last.sender = "0xB2"
    /\ chain.last.ret = 2
    /\ chain.c.owners[1] = "0xA1"
    /\ chain.c.owners[2] = "0xB2"

\* C33: setAgentURI and setMetadata go through exactly when the caller is
\* the current owner of the agent id, and then write the value they were
\* given and nothing else; called by any other account, an operator of the
\* owner and the account approved for the token included, or for an id that
\* was never registered, they revert and the URIs, the metadata, the
\* ownership, the approvals and the id counter are as before.
C33_OnlyOwnerWrites ==
    LET call == chain.last
        before == chain.before
        after == chain.c
        id == call.agentId
        registered == id >= 1 /\ id <= totalAgents(before).ret
        byOwner == registered /\ before.owners[id] = call.sender
    IN  call.fn \in {"setAgentURI", "setMetadata"} =>
            /\ call.ok <=> byOwner
            /\ ~call.ok => after = before
            /\ after.owners = before.owners
            /\ after.nextAgentId = before.nextAgentId
            /\ after.operators = before.operators
            /\ after.tokenApprovals = before.tokenApprovals
            /\ (call.ok /\ call.fn = "setAgentURI") =>
                   /\ after.agentURIs = [before.agentURIs EXCEPT ![id] = call.arg]
                   /\ after.metadata = before.metadata
            /\ (call.ok /\ call.fn = "setMetadata") =>
                   /\ after.metadata = [before.metadata EXCEPT ![id]["service"] = call.arg]
                   /\ after.agentURIs = before.agentURIs

C33_Witness ==
    /\ chain.last.fn = "setAgentURI"
    /\ chain.last.sender = "0xB2"
    /\ chain.last.agentId = 1
    /\ chain.last.arg = "ipfs://a"
    /\ ~chain.last.ok
    /\ chain.before.owners[1] = "0xA1"
    /\ "0xB2" \in chain.before.operators["0xA1"]
    /\ chain.before.tokenApprovals[1] = "0xB2"
    /\ chain.c.agentURIs[1] = ""

\* C34: the set of agents only grows: an id that register has returned has
\* an owner in every later state, whatever is called afterwards (no call
\* takes an owner away, a transfer by the owner, by an operator or by the
\* account approved for the token gives it another one); agentURI(id) and tokenURI(id) return the URI last
\* written for a registered id, the empty one when none was, and revert
\* exactly for the ids never registered; totalAgents() never decreases.
C34_AppendOnly ==
    LET before == chain.before
        after == chain.c
        registered == 1 .. Len(chain.returned)
    IN  /\ Owned(before) \subseteq Owned(after)
        /\ registered \subseteq Owned(after)
        /\ totalAgents(after).ret >= totalAgents(before).ret
        /\ \A id \in TokenIds :
               /\ agentURI(after, id).ok <=> id \in registered
               /\ tokenURI(after, id) = agentURI(after, id)
               /\ id \in registered => agentURI(after, id).ret = chain.written[id]
        /\ chain.last.fn \notin {"register(string)", "setAgentURI"} =>
               after.agentURIs = before.agentURIs

C34_Witness ==
    /\ chain.returned = <<1>>
    /\ chain.last.fn = "transferFrom"
    /\ chain.last.agentId = 1
    /\ chain.last.arg = "0xB2"
    /\ chain.last.sender = "0xB2"
    /\ chain.last.ok
    /\ chain.before.owners[1] = "0xA1"
    /\ chain.before.operators["0xA1"] = {}
    /\ chain.before.tokenApprovals[1] = "0xB2"
    /\ chain.c.owners[1] = "0xB2"
    /\ chain.c.tokenApprovals[1] = ZeroAddress
    /\ agentURI(chain.c, 1) = Returned(chain.c, "ipfs://a")
    /\ ~agentURI(chain.c, 2).ok

====
